---- MODULE Spec2Model ----
(***************************************************************************)
(* A2S packet and payload decoders of the a2s_parse crate.                 *)
(*                                                                         *)
(* A byte buffer is a sequence of integers 0..255.  A nom parser is an     *)
(* operator of a buffer and a cursor: the 1-based index of the next byte,  *)
(* so the remaining input of the source is SubSeq(buf, pos, Len(buf)).     *)
(* It yields POk(pos', value) or PErr(pos, code), where pos in an error is *)
(* the cursor of the error's remaining input and code its ErrorKind.       *)
(* Option<T> is a sequence of length 0 (None) or 1 (Some).                 *)
(***************************************************************************)
EXTENDS Integers, Sequences, FiniteSets, TLC

VARIABLES pc, fn, input, size, result, peer

vars == <<pc, fn, input, size, result, peer>>

-----------------------------------------------------------------------------
(* nom primitives                                                          *)

POk(p, v) == [ok |-> TRUE, pos |-> p, code |-> "", val |-> v]

PErr(p, c) == [ok |-> FALSE, pos |-> p, code |-> c, val |-> <<>>]

None == <<>>

Some(v) == <<v>>

Rest(buf, pos) == SubSeq(buf, pos, Len(buf))

\* le_u8 that takes a byte without looking at the length
le_u8_unchecked(buf, pos) ==
    POk(pos + 1, IF pos <= Len(buf) THEN buf[pos] ELSE 0)

\* number::complete::le_u8
le_u8(buf, pos) ==
    IF pos > Len(buf) THEN PErr(pos, "Eof") ELSE POk(pos + 1, buf[pos])

\* number::complete::le_i16, two's complement of width 16
le_i16(buf, pos) ==
    IF pos + 1 > Len(buf) THEN PErr(pos, "Eof")
    ELSE POk(pos + 2,
             buf[pos] + 256 * buf[pos + 1]
               - (IF buf[pos + 1] >= 128 THEN 65536 ELSE 0))

\* number::complete::le_i32, two's complement of width 32
le_i32(buf, pos) ==
    IF pos + 3 > Len(buf) THEN PErr(pos, "Eof")
    ELSE POk(pos + 4,
             buf[pos] + 256 * buf[pos + 1] + 65536 * buf[pos + 2]
               + 16777216 * (IF buf[pos + 3] >= 128 THEN buf[pos + 3] - 256
                                                    ELSE buf[pos + 3]))

\* number::complete::le_u64; the value is kept as four 16-bit limbs, least
\* significant first (base 65536)
le_u64(buf, pos) ==
    IF pos + 7 > Len(buf) THEN PErr(pos, "Eof")
    ELSE POk(pos + 8,
             [i \in 1..4 |-> buf[pos + 2 * i - 2] + 256 * buf[pos + 2 * i - 1]])

\* number::complete::le_f32; the value is kept as the two 16-bit limbs of its
\* IEEE-754 bit pattern, least significant first
le_f32(buf, pos) ==
    IF pos + 3 > Len(buf) THEN PErr(pos, "Eof")
    ELSE POk(pos + 4,
             [i \in 1..2 |-> buf[pos + 2 * i - 2] + 256 * buf[pos + 2 * i - 1]])

\* combinator::rest
rest(buf, pos) == POk(Len(buf) + 1, Rest(buf, pos))

\* combinator::all_consuming applied to the outcome r of the inner parser
all_consuming(buf, r) ==
    IF ~r.ok THEN r
    ELSE IF r.pos <= Len(buf) THEN PErr(r.pos, "Eof")
    ELSE r

\* Finish::finish and the match of every public parser: the value alone on
\* success, the nom Error (remaining input and kind) on failure
finish(buf, r) ==
    IF r.ok THEN [ok |-> TRUE, val |-> r.val]
    ELSE [ok |-> FALSE, err |-> [input |-> Rest(buf, r.pos), code |-> r.code]]

-----------------------------------------------------------------------------
(* parser_util.rs                                                          *)

\* U+FFFD REPLACEMENT CHARACTER
Replacement == 65533

\* String::from_utf8_lossy from cursor i on: a String is the sequence of its
\* code points; every maximal invalid chunk becomes one U+FFFD
RECURSIVE from_utf8_lossy_at(_, _)
from_utf8_lossy_at(bs, i) ==
    IF i > Len(bs) THEN <<>> ELSE
    LET b == bs[i]
        get(k) == IF k <= Len(bs) THEN bs[k] ELSE 0
        cont(k) == get(k) \in 128..191
        b1 == get(i + 1)
        width == IF b \in 194..223 THEN 2
                 ELSE IF b \in 224..239 THEN 3
                 ELSE IF b \in 240..244 THEN 4
                 ELSE 0
        second3 == \/ b = 224 /\ b1 \in 160..191
                   \/ b \in 225..236 /\ b1 \in 128..191
                   \/ b = 237 /\ b1 \in 128..159
                   \/ b \in 238..239 /\ b1 \in 128..191
        second4 == \/ b = 240 /\ b1 \in 144..191
                   \/ b \in 241..243 /\ b1 \in 128..191
                   \/ b = 244 /\ b1 \in 128..143
        bad(n) == <<Replacement>> \o from_utf8_lossy_at(bs, i + n)
    IN
    IF b < 128 THEN <<b>> \o from_utf8_lossy_at(bs, i + 1)
    ELSE IF width = 2 THEN
        IF ~cont(i + 1) THEN bad(1)
        ELSE <<(b - 192) * 64 + (b1 - 128)>> \o from_utf8_lossy_at(bs, i + 2)
    ELSE IF width = 3 THEN
        IF ~second3 THEN bad(1)
        ELSE IF ~cont(i + 2) THEN bad(2)
        ELSE <<(b - 224) * 4096 + (b1 - 128) * 64 + (get(i + 2) - 128)>>
               \o from_utf8_lossy_at(bs, i + 3)
    ELSE IF width = 4 THEN
        IF ~second4 THEN bad(1)
        ELSE IF ~cont(i + 2) THEN bad(2)
        ELSE IF ~cont(i + 3) THEN bad(3)
        ELSE <<(b - 240) * 262144 + (b1 - 128) * 4096
                 + (get(i + 2) - 128) * 64 + (get(i + 3) - 128)>>
               \o from_utf8_lossy_at(bs, i + 4)
    ELSE bad(1)

from_utf8_lossy(bs) == from_utf8_lossy_at(bs, 1)

\* bytes::complete::take_till(|c| c == 0x00): the cursor of the first 0x00 at
\* or after pos, or of the end of the buffer
RECURSIVE take_till_null(_, _)
take_till_null(buf, pos) ==
    IF pos > Len(buf) \/ buf[pos] = 0 THEN pos
    ELSE take_till_null(buf, pos + 1)

\* parse_null that takes any byte
parse_null_any(buf, pos) ==
    IF pos <= Len(buf) THEN POk(pos + 1, 0) ELSE PErr(pos, "Char")

\* character::complete::char(0x00)
parse_null(buf, pos) ==
    IF pos <= Len(buf) /\ buf[pos] = 0 THEN POk(pos + 1, 0)
    ELSE PErr(pos, "Char")

\* c_string that keeps the terminator in the string
c_string_keeping_null(buf, pos) ==
    LET k == take_till_null(buf, pos)
        t == parse_null(buf, k) IN
    IF ~t.ok THEN t
    ELSE POk(t.pos, from_utf8_lossy(SubSeq(buf, pos, k)))

\* c_string: terminated(take_till(..), char(0x00)), then from_utf8_lossy
c_string(buf, pos) ==
    LET k == take_till_null(buf, pos)
        t == parse_null(buf, k) IN
    IF ~t.ok THEN t
    ELSE POk(t.pos, from_utf8_lossy(SubSeq(buf, pos, k - 1)))

\* opt_le_u8: opt(le_u8)
opt_le_u8(buf, pos) ==
    LET r == le_u8(buf, pos) IN
    IF r.ok THEN POk(r.pos, Some(r.val)) ELSE POk(pos, None)

\* parse_bool that takes a missing byte for false
parse_bool_opt(buf, pos) ==
    LET r == le_u8(buf, pos) IN
    IF r.ok THEN POk(r.pos, r.val # 0) ELSE POk(pos, FALSE)

\* parse_bool
parse_bool(buf, pos) ==
    LET r == le_u8(buf, pos) IN
    IF r.ok THEN POk(r.pos, r.val # 0) ELSE r

\* flag & mask != 0 for a mask of one bit
BitSet(flag, mask) == (flag \div mask) % 2 = 1

-----------------------------------------------------------------------------
(* info.rs                                                                 *)

\* impl From<u8> for ServerType
ServerTypeFrom(b) ==
    IF b \in {68, 100} THEN <<"Dedicated">>
    ELSE IF b \in {76, 108} THEN <<"NonDedicated">>
    ELSE IF b \in {80, 112} THEN <<"SourceTV">>
    ELSE <<"Other", b>>

\* impl From<u8> for Environment
EnvironmentFrom(b) ==
    IF b \in {76, 108} THEN <<"Linux">>
    ELSE IF b \in {87, 119} THEN <<"Windows">>
    ELSE IF b \in {77, 109, 79, 111} THEN <<"MacOS">>
    ELSE <<"Other", b>>

\* impl From<u8> for TheShipGameMode
TheShipGameModeFrom(b) ==
    IF b = 0 THEN <<"Hunt">>
    ELSE IF b = 1 THEN <<"Elimination">>
    ELSE IF b = 2 THEN <<"Duel">>
    ELSE IF b = 3 THEN <<"Deathmatch">>
    ELSE IF b = 4 THEN <<"VIP_Team">>
    ELSE IF b = 5 THEN <<"Team_Elimination">>
    ELSE <<"Other", b>>

\* server_type
server_type(buf, pos) ==
    LET r == le_u8(buf, pos) IN
    IF r.ok THEN POk(r.pos, ServerTypeFrom(r.val)) ELSE r

\* environment
environment(buf, pos) ==
    LET r == le_u8(buf, pos) IN
    IF r.ok THEN POk(r.pos, EnvironmentFrom(r.val)) ELSE r

\* the test source_info hands to the_ship
is_ship(app_id) == app_id = 2400

\* the_ship
the_ship(buf, pos, ship) ==
    IF ship THEN
        LET mode == le_u8(buf, pos) IN
        IF ~mode.ok THEN mode ELSE
        LET witnesses == le_u8(buf, mode.pos) IN
        IF ~witnesses.ok THEN witnesses ELSE
        LET duration == le_u8(buf, witnesses.pos) IN
        IF ~duration.ok THEN duration ELSE
        POk(duration.pos,
            Some([mode |-> TheShipGameModeFrom(mode.val),
                  witnesses |-> witnesses.val,
                  duration |-> duration.val]))
    ELSE POk(pos, None)

\* an optional field of extra_data_fields: parsed by p when present
edf_field(present, r, pos) ==
    IF present THEN (IF r.ok THEN POk(r.pos, Some(r.val)) ELSE r)
    ELSE POk(pos, None)

\* port
port(buf, pos, flag) == edf_field(BitSet(flag, 128), le_i16(buf, pos), pos)

\* steam_id
steam_id(buf, pos, flag) == edf_field(BitSet(flag, 16), le_u64(buf, pos), pos)

\* source_tv_port
source_tv_port(buf, pos, flag) ==
    edf_field(BitSet(flag, 64), le_i16(buf, pos), pos)

\* source_tv_name
source_tv_name(buf, pos, flag) ==
    edf_field(BitSet(flag, 64), c_string(buf, pos), pos)

\* keywords
keywords(buf, pos, flag) == edf_field(BitSet(flag, 32), c_string(buf, pos), pos)

\* game_id: tests the keywords bit 0x20
game_id(buf, pos, flag) == edf_field(BitSet(flag, 32), le_u64(buf, pos), pos)

\* extra_data_fields
extra_data_fields(buf, pos, flag) ==
    LET p == port(buf, pos, flag) IN
    IF ~p.ok THEN p ELSE
    LET s == steam_id(buf, p.pos, flag) IN
    IF ~s.ok THEN s ELSE
    LET tp == source_tv_port(buf, s.pos, flag) IN
    IF ~tp.ok THEN tp ELSE
    LET tn == source_tv_name(buf, tp.pos, flag) IN
    IF ~tn.ok THEN tn ELSE
    LET k == keywords(buf, tn.pos, flag) IN
    IF ~k.ok THEN k ELSE
    LET g == game_id(buf, k.pos, flag) IN
    IF ~g.ok THEN g ELSE
    POk(g.pos,
        [port |-> p.val,
         steam_id |-> s.val,
         source_tv_port |-> tp.val,
         source_tv_name |-> tn.val,
         keywords |-> k.val,
         game_id |-> g.val])

\* source_info
source_info(buf, pos) ==
    LET protocol == le_u8(buf, pos) IN
    IF ~protocol.ok THEN protocol ELSE
    LET name == c_string(buf, protocol.pos) IN
    IF ~name.ok THEN name ELSE
    LET map == c_string(buf, name.pos) IN
    IF ~map.ok THEN map ELSE
    LET folder == c_string(buf, map.pos) IN
    IF ~folder.ok THEN folder ELSE
    LET game == c_string(buf, folder.pos) IN
    IF ~game.ok THEN game ELSE
    LET app_id == le_i16(buf, game.pos) IN
    IF ~app_id.ok THEN app_id ELSE
    LET players == le_u8(buf, app_id.pos) IN
    IF ~players.ok THEN players ELSE
    LET max_players == le_u8(buf, players.pos) IN
    IF ~max_players.ok THEN max_players ELSE
    LET bots == le_u8(buf, max_players.pos) IN
    IF ~bots.ok THEN bots ELSE
    LET stype == server_type(buf, bots.pos) IN
    IF ~stype.ok THEN stype ELSE
    LET env == environment(buf, stype.pos) IN
    IF ~env.ok THEN env ELSE
    LET visibility == parse_bool(buf, env.pos) IN
    IF ~visibility.ok THEN visibility ELSE
    LET vac == parse_bool(buf, visibility.pos) IN
    IF ~vac.ok THEN vac ELSE
    LET ship == the_ship(buf, vac.pos, is_ship(app_id.val)) IN
    IF ~ship.ok THEN ship ELSE
    LET version == c_string(buf, ship.pos) IN
    IF ~version.ok THEN version ELSE
    LET edf == opt_le_u8(buf, version.pos) IN
    IF ~edf.ok THEN edf ELSE
    LET extra_data_flag == IF edf.val = None THEN 0 ELSE edf.val[1] IN
    LET extra == extra_data_fields(buf, edf.pos, extra_data_flag) IN
    IF ~extra.ok THEN extra ELSE
    POk(extra.pos,
        [protocol |-> protocol.val,
         name |-> name.val,
         map |-> map.val,
         folder |-> folder.val,
         game |-> game.val,
         app_id |-> app_id.val,
         players |-> players.val,
         max_players |-> max_players.val,
         bots |-> bots.val,
         server_type |-> stype.val,
         environment |-> env.val,
         visibility |-> visibility.val,
         vac |-> vac.val,
         the_ship |-> ship.val,
         version |-> version.val,
         extra_data_flag |-> extra_data_flag,
         extra_data_fields |-> extra.val])

\* p_source_info without all_consuming
p_source_info_lenient(buf, pos) == source_info(buf, pos)

\* p_source_info
p_source_info(buf, pos) == all_consuming(buf, source_info(buf, pos))

\* parse_source_info
parse_source_info(buf) == finish(buf, p_source_info(buf, 1))

\* impl From<u8> for ModType
ModTypeFrom(b) ==
    IF b = 0 THEN <<"SingleAndMultiplayer">>
    ELSE IF b = 1 THEN <<"MultiplayerOnly">>
    ELSE <<"Other", b>>

\* impl From<u8> for ModDLL
ModDLLFrom(b) ==
    IF b = 0 THEN <<"HalfLife">>
    ELSE IF b = 1 THEN <<"Custom">>
    ELSE <<"Other", b>>

\* mod_type
mod_type(buf, pos) ==
    LET r == le_u8(buf, pos) IN
    IF r.ok THEN POk(r.pos, ModTypeFrom(r.val)) ELSE r

\* dll
dll(buf, pos) ==
    LET r == le_u8(buf, pos) IN
    IF r.ok THEN POk(r.pos, ModDLLFrom(r.val)) ELSE r

\* the mod block read in full
half_life_mod(buf, pos) ==
    LET link == c_string(buf, pos) IN
    IF ~link.ok THEN link ELSE
    LET download_link == c_string(buf, link.pos) IN
    IF ~download_link.ok THEN download_link ELSE
    LET null == parse_null(buf, download_link.pos) IN
    IF ~null.ok THEN null ELSE
    LET version == le_i32(buf, null.pos) IN
    IF ~version.ok THEN version ELSE
    LET size_ == le_i32(buf, version.pos) IN
    IF ~size_.ok THEN size_ ELSE
    LET mtype == mod_type(buf, size_.pos) IN
    IF ~mtype.ok THEN mtype ELSE
    LET d == dll(buf, mtype.pos) IN
    IF ~d.ok THEN d ELSE
    POk(d.pos,
        Some([link |-> link.val,
              download_link |-> download_link.val,
              version |-> version.val,
              size |-> size_.val,
              mod_type |-> mtype.val,
              dll |-> d.val]))

\* mod_fields that reads the mod block whatever the flag says
mod_fields_always(buf, pos, is_mod) == half_life_mod(buf, pos)

\* mod_fields
mod_fields(buf, pos, is_mod) ==
    IF is_mod THEN half_life_mod(buf, pos) ELSE POk(pos, None)

\* goldsource_info
goldsource_info(buf, pos) ==
    LET address == c_string(buf, pos) IN
    IF ~address.ok THEN address ELSE
    LET name == c_string(buf, address.pos) IN
    IF ~name.ok THEN name ELSE
    LET map == c_string(buf, name.pos) IN
    IF ~map.ok THEN map ELSE
    LET folder == c_string(buf, map.pos) IN
    IF ~folder.ok THEN folder ELSE
    LET game == c_string(buf, folder.pos) IN
    IF ~game.ok THEN game ELSE
    LET players == le_u8(buf, game.pos) IN
    IF ~players.ok THEN players ELSE
    LET max_players == le_u8(buf, players.pos) IN
    IF ~max_players.ok THEN max_players ELSE
    LET protocol == le_u8(buf, max_players.pos) IN
    IF ~protocol.ok THEN protocol ELSE
    LET stype == server_type(buf, protocol.pos) IN
    IF ~stype.ok THEN stype ELSE
    LET env == environment(buf, stype.pos) IN
    IF ~env.ok THEN env ELSE
    LET visibility == parse_bool(buf, env.pos) IN
    IF ~visibility.ok THEN visibility ELSE
    LET mod_half_life == parse_bool(buf, visibility.pos) IN
    IF ~mod_half_life.ok THEN mod_half_life ELSE
    LET mods == mod_fields(buf, mod_half_life.pos, mod_half_life.val) IN
    IF ~mods.ok THEN mods ELSE
    LET vac == parse_bool(buf, mods.pos) IN
    IF ~vac.ok THEN vac ELSE
    LET bots == le_u8(buf, vac.pos) IN
    IF ~bots.ok THEN bots ELSE
    POk(bots.pos,
        [address |-> address.val,
         name |-> name.val,
         map |-> map.val,
         folder |-> folder.val,
         game |-> game.val,
         players |-> players.val,
         max_players |-> max_players.val,
         protocol |-> protocol.val,
         server_type |-> stype.val,
         environment |-> env.val,
         visibility |-> visibility.val,
         mod_half_life |-> mod_half_life.val,
         mod_fields |-> mods.val,
         vac |-> vac.val,
         bots |-> bots.val])

\* p_goldsource_info
p_goldsource_info(buf, pos) == all_consuming(buf, goldsource_info(buf, pos))

\* parse_goldsource_info
parse_goldsource_info(buf) == finish(buf, p_goldsource_info(buf, 1))

-----------------------------------------------------------------------------
(* player.rs                                                               *)

\* player_data
player_data(buf, pos) ==
    LET index == le_u8(buf, pos) IN
    IF ~index.ok THEN index ELSE
    LET name == c_string(buf, index.pos) IN
    IF ~name.ok THEN name ELSE
    LET score == le_i32(buf, name.pos) IN
    IF ~score.ok THEN score ELSE
    LET duration == le_f32(buf, score.pos) IN
    IF ~duration.ok THEN duration ELSE
    POk(duration.pos,
        [index |-> index.val,
         name |-> name.val,
         score |-> score.val,
         duration |-> duration.val,
         ship_data |-> None])

\* ship_data
ship_data(buf, pos) ==
    LET deaths == le_i32(buf, pos) IN
    IF ~deaths.ok THEN deaths ELSE
    LET money == le_i32(buf, deaths.pos) IN
    IF ~money.ok THEN money ELSE
    POk(money.pos, [deaths |-> deaths.val, money |-> money.val])

\* many_player_data that wants exactly player_count entries (nom's count)
RECURSIVE count_player_data(_, _, _)
count_player_data(buf, pos, player_count) ==
    IF player_count = 0 THEN POk(pos, <<>>) ELSE
    LET r == player_data(buf, pos) IN
    IF ~r.ok THEN r ELSE
    LET more == count_player_data(buf, r.pos, player_count - 1) IN
    IF ~more.ok THEN more ELSE POk(more.pos, <<r.val>> \o more.val)

\* many_player_data: many_m_n(0, player_count, player_data) stops at the
\* first entry that fails and keeps what it has (an entry always consumes)
RECURSIVE many_player_data(_, _, _)
many_player_data(buf, pos, player_count) ==
    IF player_count = 0 THEN POk(pos, <<>>) ELSE
    LET r == player_data(buf, pos) IN
    IF ~r.ok THEN POk(pos, <<>>) ELSE
    LET more == many_player_data(buf, r.pos, player_count - 1) IN
    POk(more.pos, <<r.val>> \o more.val)

\* many_the_ship_data: many_m_n(0, players, ship_data)
RECURSIVE many_the_ship_data(_, _, _)
many_the_ship_data(buf, pos, players) ==
    IF players = 0 THEN POk(pos, <<>>) ELSE
    LET r == ship_data(buf, pos) IN
    IF ~r.ok THEN POk(pos, <<>>) ELSE
    LET more == many_the_ship_data(buf, r.pos, players - 1) IN
    POk(more.pos, <<r.val>> \o more.val)

\* player, the merge: when ship_data is not empty, zip it onto player_data;
\* zip stops at the shorter of the two
attach_ship_data(pd, sd) ==
    IF sd # <<>>
    THEN [i \in 1..Len(pd) |->
            IF i <= Len(sd) THEN [pd[i] EXCEPT !.ship_data = Some(sd[i])]
            ELSE pd[i]]
    ELSE pd

\* player
player(buf, pos) ==
    LET players == le_u8(buf, pos) IN
    IF ~players.ok THEN players ELSE
    LET pd == many_player_data(buf, players.pos, players.val) IN
    IF ~pd.ok THEN pd ELSE
    LET sd == many_the_ship_data(buf, pd.pos, players.val) IN
    IF ~sd.ok THEN sd ELSE
    POk(sd.pos,
        [players |-> players.val,
         player_data |-> attach_ship_data(pd.val, sd.val)])

\* p_player without all_consuming
p_player_lenient(buf, pos) == player(buf, pos)

\* p_player
p_player(buf, pos) == all_consuming(buf, player(buf, pos))

\* parse_player
parse_player(buf) == finish(buf, p_player(buf, 1))

-----------------------------------------------------------------------------
(* packet.rs                                                               *)

\* is_split that takes every marker other than -1 for a fragment
is_split_not_single(buf, pos) ==
    LET h == le_i32(buf, pos) IN
    IF ~h.ok THEN h
    ELSE POk(h.pos, h.val # -1)

\* is_split
is_split(buf, pos) ==
    LET h == le_i32(buf, pos) IN
    IF ~h.ok THEN h
    ELSE IF ~(h.val = -1 \/ h.val = -2) THEN PErr(h.pos, "NoneOf")
    ELSE POk(h.pos, h.val = -2)

is_payload_split(buf) == finish(buf, is_split(buf, 1))

\* size_field that reads the size whatever the caller says
size_field_always(buf, pos, size_included) ==
    LET s == le_i16(buf, pos) IN
    IF s.ok THEN POk(s.pos, Some(s.val)) ELSE s

\* source_multi_packet, the size field: read only when the caller says so
size_field(buf, pos, size_included) ==
    IF size_included
    THEN LET s == le_i16(buf, pos) IN
         IF s.ok THEN POk(s.pos, Some(s.val)) ELSE s
    ELSE POk(pos, None)

\* payload_compressed that looks at the id alone
payload_compressed_any_packet(packet_number, id) == id < 0

\* source_multi_packet, the compression test
payload_compressed(packet_number, id) == packet_number = 0 /\ id < 0

\* compressed_i32 that leaves the field out when the buffer is too short
compressed_i32_if_present(buf, pos, compressed) ==
    IF compressed /\ pos + 3 <= Len(buf)
    THEN POk(pos + 4, Some(le_i32(buf, pos).val))
    ELSE POk(pos, None)

\* source_multi_packet, decompressed_size and crc32_checksum: an i32 read only
\* when the payload is compressed
compressed_i32(buf, pos, compressed) ==
    IF compressed
    THEN LET d == le_i32(buf, pos) IN
         IF d.ok THEN POk(d.pos, Some(d.val)) ELSE d
    ELSE POk(pos, None)

\* source_multi_packet
source_multi_packet(buf, pos, size_included) ==
    LET id == le_i32(buf, pos) IN
    IF ~id.ok THEN id ELSE
    LET total_packets == le_u8(buf, id.pos) IN
    IF ~total_packets.ok THEN total_packets ELSE
    LET packet_number == le_u8(buf, total_packets.pos) IN
    IF ~packet_number.ok THEN packet_number ELSE
    LET sz == size_field(buf, packet_number.pos, size_included) IN
    IF ~sz.ok THEN sz ELSE
    LET compressed == payload_compressed(packet_number.val, id.val) IN
    LET decompressed_size == compressed_i32(buf, sz.pos, compressed) IN
    IF ~decompressed_size.ok THEN decompressed_size ELSE
    LET crc32_checksum ==
            compressed_i32(buf, decompressed_size.pos, compressed) IN
    IF ~crc32_checksum.ok THEN crc32_checksum ELSE
    LET payload == rest(buf, crc32_checksum.pos) IN
    POk(payload.pos,
        [id |-> id.val,
         total_packets |-> total_packets.val,
         packet_number |-> packet_number.val,
         payload |-> payload.val,
         payload_compressed |-> compressed,
         size |-> sz.val,
         decompressed_size |-> decompressed_size.val,
         crc32_checksum |-> crc32_checksum.val])

parse_source_multi_packet(buf, size_included) ==
    finish(buf, source_multi_packet(buf, 1, size_included))

\* goldsource_multi_packet: packet_number is shadowed by its own high nibble
\* before total_packets is taken from it
goldsource_multi_packet(buf, pos) ==
    LET id == le_i32(buf, pos) IN
    IF ~id.ok THEN id ELSE
    LET byte == le_u8(buf, id.pos) IN
    IF ~byte.ok THEN byte ELSE
    LET packet_number == byte.val \div 16 IN
    LET total_packets == packet_number % 16 IN
    LET payload == rest(buf, byte.pos) IN
    POk(payload.pos,
        [id |-> id.val,
         total_packets |-> total_packets,
         packet_number |-> packet_number,
         payload |-> payload.val,
         payload_compressed |-> FALSE,
         size |-> None,
         decompressed_size |-> None,
         crc32_checksum |-> None])

parse_goldsource_multi_packet(buf) ==
    finish(buf, goldsource_multi_packet(buf, 1))

\* impl From<u8> for MessageHeader: Invalid does not keep the byte
MessageHeaderFrom(b) ==
    CASE b = 84 -> <<"InfoRequest">>
      [] b = 73 -> <<"InfoResponseSource">>
      [] b = 109 -> <<"InfoResponseGoldSource">>
      [] b = 85 -> <<"PlayerRequest">>
      [] b = 68 -> <<"PlayerResponse">>
      [] b = 86 -> <<"RulesRequest">>
      [] b = 69 -> <<"RulesResponse">>
      [] b = 105 -> <<"PingRequest">>
      [] b = 106 -> <<"PingResponse">>
      [] b = 87 -> <<"ChallengeRequest">>
      [] b = 65 -> <<"ChallengeResponse">>
      [] OTHER -> <<"Invalid">>

message_header(buf, pos) ==
    LET payload_header == le_u8(buf, pos) IN
    IF ~payload_header.ok THEN payload_header
    ELSE POk(payload_header.pos, MessageHeaderFrom(payload_header.val))

single_packet(buf, pos) ==
    LET header == message_header(buf, pos) IN
    IF ~header.ok THEN header
    ELSE IF header.val = <<"Invalid">>
    THEN PErr(header.pos, "NoneOf")
    ELSE LET payload == rest(buf, header.pos) IN
         POk(payload.pos,
             [message_header |-> header.val, payload |-> payload.val])

parse_single_packet(buf) == finish(buf, single_packet(buf, 1))

message_type(buf) == finish(buf, message_header(buf, 1))

-----------------------------------------------------------------------------
(* ping.rs                                                                 *)

\* p_ping without all_consuming
p_ping_lenient(buf, pos) == c_string(buf, pos)

\* p_ping: all_consuming(c_string)
p_ping(buf, pos) == all_consuming(buf, c_string(buf, pos))

\* parse_ping
parse_ping(buf) == finish(buf, p_ping(buf, 1))

-----------------------------------------------------------------------------
(* rules.rs                                                                *)

\* `rules as usize` of an i16: sign extension, so a negative count becomes
\* 2^64 + rules (2^32 + rules where usize has 32 bits).  No slice holds that
\* many entries; the model keeps 2^31 + rules, which no buffer reaches either
as_usize(rules) == IF rules >= 0 THEN rules ELSE (2147483647 + rules) + 1

\* `len as i16`: the low 16 bits, two's complement
as_i16(len) == ((len + 32768) % 65536) - 32768

\* rule_data
rule_data(buf, pos) ==
    LET name == c_string(buf, pos) IN
    IF ~name.ok THEN name ELSE
    LET value == c_string(buf, name.pos) IN
    IF ~value.ok THEN value ELSE
    POk(value.pos, [name |-> name.val, value |-> value.val])

\* many_m_n(0, max, rule_data): stops at the first entry that fails and keeps
\* what it has (an entry always consumes)
RECURSIVE many_m_n_rule_data(_, _, _)
many_m_n_rule_data(buf, pos, max) ==
    IF max = 0 THEN POk(pos, <<>>) ELSE
    LET r == rule_data(buf, pos) IN
    IF ~r.ok THEN POk(pos, <<>>) ELSE
    LET more == many_m_n_rule_data(buf, r.pos, max - 1) IN
    POk(more.pos, <<r.val>> \o more.val)

\* many_rule_data that wants exactly `rules` entries when the count is not
\* negative (nom's count)
RECURSIVE count_rule_data(_, _, _)
count_rule_data(buf, pos, rules) ==
    IF rules <= 0 THEN POk(pos, <<>>) ELSE
    LET r == rule_data(buf, pos) IN
    IF ~r.ok THEN r ELSE
    LET more == count_rule_data(buf, r.pos, rules - 1) IN
    IF ~more.ok THEN more ELSE POk(more.pos, <<r.val>> \o more.val)

\* many_rule_data
many_rule_data(buf, pos, rules) ==
    many_m_n_rule_data(buf, pos, as_usize(rules))

\* rules; the record has the fields of struct RulesResponse
rules(buf, pos) ==
    LET num_rules == le_i16(buf, pos) IN
    IF ~num_rules.ok THEN num_rules ELSE
    LET data == many_rule_data(buf, num_rules.pos, num_rules.val) IN
    IF ~data.ok THEN data ELSE
    LET remaining_data == rest(buf, data.pos) IN
    IF /\ as_i16(Len(data.val)) = num_rules.val
       /\ from_utf8_lossy(remaining_data.val) # <<>>
    THEN PErr(remaining_data.pos, "NonEmpty")
    ELSE POk(remaining_data.pos,
             [num_rules |-> num_rules.val,
              rules |-> data.val,
              remaining_data |-> from_utf8_lossy(remaining_data.val)])

\* p_rules: all_consuming(rules)
p_rules(buf, pos) == all_consuming(buf, rules(buf, pos))

\* parse_rules
parse_rules(buf) == finish(buf, p_rules(buf, 1))

-----------------------------------------------------------------------------
(* requests.rs                                                             *)

\* "Source Engine Query"
SourceEngineQuery ==
    <<83, 111, 117, 114, 99, 101, 32, 69, 110, 103, 105, 110, 101, 32,
      81, 117, 101, 114, 121>>

\* opt_le_i32: opt(le_i32)
opt_le_i32(buf, pos) ==
    LET r == le_i32(buf, pos) IN
    IF r.ok THEN POk(r.pos, Some(r.val)) ELSE POk(pos, None)

\* p_info_request that takes any payload string
p_info_request_any_payload(buf, pos) ==
    LET payload == c_string(buf, pos) IN
    IF ~payload.ok THEN payload ELSE
    LET challenge == opt_le_i32(buf, payload.pos)
        remaining == rest(buf, challenge.pos) IN
    POk(remaining.pos,
        [payload |-> payload.val,
         challenge |-> challenge.val,
         remaining |-> remaining.val])

\* p_info_request
p_info_request(buf, pos) ==
    LET payload == c_string(buf, pos) IN
    IF ~payload.ok THEN payload ELSE
    IF payload.val # SourceEngineQuery THEN PErr(payload.pos, "Satisfy") ELSE
    LET challenge == opt_le_i32(buf, payload.pos) IN
    IF ~challenge.ok THEN challenge ELSE
    LET remaining == rest(buf, challenge.pos) IN
    POk(remaining.pos,
        [payload |-> payload.val,
         challenge |-> challenge.val,
         remaining |-> remaining.val])

\* parse_info_request
parse_info_request(buf) == finish(buf, p_info_request(buf, 1))

-----------------------------------------------------------------------------
(* Buffers handed to the decoders                                          *)

\* longest payload that follows a fragment header
MaxPayload == 3

RECURSIVE Flatten(_)
Flatten(ss) == IF ss = <<>> THEN <<>> ELSE Head(ss) \o Flatten(Tail(ss))

Prefixes(b) == {SubSeq(b, 1, n) : n \in 0..Len(b)}

Ramp(n) == [i \in 1..n |-> i]

\* envelope markers: -1, -2 and near misses, with up to one byte following
SplitBytes == {0, 253, 254, 255}

SplitInputs ==
    UNION {[1..n -> SplitBytes] : n \in 0..4}
      \cup {h \o <<73>> : h \in [1..4 -> SplitBytes]}

\* fragment ids: 0, 1, 2^31 - 1, -2^31, -2, -1
FragmentIds ==
    {<<0, 0, 0, 0>>, <<1, 0, 0, 0>>, <<255, 255, 255, 127>>,
     <<0, 0, 0, 128>>, <<254, 255, 255, 255>>, <<255, 255, 255, 255>>}

\* a Source fragment: id, total, number, then 10 + MaxPayload bytes that are
\* size, compression data or payload as the header decides; every prefix
SourceFragmentInputs ==
    UNION {Prefixes(id \o <<total, number>> \o Ramp(10 + MaxPayload)) :
             id \in FragmentIds, total \in {1, 2}, number \in {0, 1}}

\* a GoldSource fragment: id, every control byte, payload; short headers
GoldSourceFragmentInputs ==
    {id \o <<b>> \o Ramp(n) :
        id \in {<<1, 0, 0, 0>>, <<255, 255, 255, 255>>},
        b \in 0..255, n \in 0..MaxPayload}
      \cup Prefixes(<<1, 0, 0, 0>>)

\* a payload: every tag byte with up to MaxPayload bytes after it, or nothing
TaggedInputs ==
    {<<b>> \o Ramp(n) : b \in 0..255, n \in 0..MaxPayload} \cup {<<>>}

\* bytes that may follow the EDF byte of a Source INFO buffer
MaxExtra == 23

\* player entries in a PLAYER buffer, and the count bytes tried
MaxPlayers == 3

\* bytes that may follow the player entries of a PLAYER buffer
MaxFill == 17

LE16(n) == <<(n % 65536) % 256, (n % 65536) \div 256>>

Zeros(n) == [i \in 1..n |-> 0]

\* n bytes with a 0x00 at every third place
Knots(n) == [i \in 1..n |-> IF i % 3 = 0 THEN 0 ELSE i]

\* Source INFO up to and including vac, for an app id: protocol 17, name "S",
\* map "m", folder "f", game "g", players 5, max 16, bots 4, 'd', 'l', 0, 1
InfoHead(app_id) ==
    <<17, 83, 0, 109, 0, 102, 0, 103, 0>> \o LE16(app_id)
      \o <<5, 16, 4, 100, 108, 0, 1>>

\* version "1"
InfoVersion == <<49, 0>>

\* app ids of The Ship and its variants, their neighbours, and others
InfoAppIds ==
    {2400, 2401, 2402, 2412, 2430, 2405, 2406,
     2399, 2403, 2431, 240, 0, -1, 4000}

\* every EDF byte followed by 0..MaxExtra bytes
InfoEdfInputs ==
    {InfoHead(240) \o InfoVersion \o <<f>> \o fill :
        f \in 0..255, fill \in {Zeros(n) : n \in 0..MaxExtra}}
      \cup
    {InfoHead(240) \o InfoVersion \o <<f>> \o Knots(n) :
        f \in {1, 32, 33, 128, 144, 177, 241, 255}, n \in 1..MaxExtra}

\* every app id with and without three bytes between vac and version, with
\* and without an EDF byte of 0 and a byte after that
InfoShipInputs ==
    {InfoHead(a) \o mid \o InfoVersion \o tail :
        a \in InfoAppIds,
        mid \in {<<>>, <<1, 3>>, <<1, 3, 3>>, <<0, 0, 0>>, <<9, 0, 255>>},
        tail \in {<<>>, <<0>>, <<0, 0>>}}

\* InfoHead(240) with the server_type and environment bytes given
InfoHeadEnum(st, env) ==
    <<17, 83, 0, 109, 0, 102, 0, 103, 0>> \o LE16(240)
      \o <<5, 16, 4, st, env, 0, 1>>

\* every value of each enum byte in turn: server_type, environment, and the
\* mode byte after vac for app ids 2400 and 2401
InfoEnumInputs ==
    {InfoHeadEnum(b, 108) \o InfoVersion : b \in 0..255}
      \cup {InfoHeadEnum(100, b) \o InfoVersion : b \in 0..255}
      \cup {InfoHead(a) \o <<b, 3, 3>> \o InfoVersion :
               a \in {2400, 2401}, b \in 0..255}

\* every truncation of a buffer without and with the three Ship bytes
InfoPrefixInputs ==
    UNION {Prefixes(InfoHead(a) \o mid \o InfoVersion) :
             a \in {240, 2400, 2401}, mid \in {<<>>, <<1, 3, 3>>}}

SourceInfoInputs ==
    InfoEdfInputs \cup InfoShipInputs \cup InfoEnumInputs
      \cup InfoPrefixInputs

\* GoldSource INFO up to and including visibility: address "a", name "n",
\* map "m", folder "f", game "g", players 12, max 18, protocol 47, then the
\* server_type and environment bytes given, visibility 0
GoldHead(st, env) ==
    <<97, 0, 110, 0, 109, 0, 102, 0, 103, 0, 12, 18, 47, st, env, 0>>

\* a mod block: link "w", download_link "", the null byte, version 1,
\* size 184000000, then the mod_type and dll bytes given
GoldMod(mt, d) ==
    <<119, 0, 0, 0, 1, 0, 0, 0, 0, 158, 247, 10, mt, d>>

\* every mod flag with and without a mod block, then vac and bots and up to
\* two more bytes
GoldFlagInputs ==
    {GoldHead(100, 108) \o <<f>> \o blk \o <<v, b>> \o tail :
        f \in {0, 1, 2, 255}, blk \in {<<>>, GoldMod(0, 1), <<0, 0>>},
        v \in {0, 1, 9}, b \in {0, 3}, tail \in {<<>>, <<0>>, <<7, 7>>}}

\* every value of each enum byte in turn
GoldEnumInputs ==
    {GoldHead(b, 108) \o <<0, 1, 3>> : b \in 0..255}
      \cup {GoldHead(100, b) \o <<0, 1, 3>> : b \in 0..255}
      \cup {GoldHead(100, 108) \o <<1>> \o GoldMod(b, 1) \o <<1, 3>> :
               b \in 0..255}
      \cup {GoldHead(100, 108) \o <<1>> \o GoldMod(0, b) \o <<1, 3>> :
               b \in 0..255}

\* every truncation of a buffer without and with a mod block
GoldPrefixInputs ==
    Prefixes(GoldHead(100, 108) \o <<0, 1, 3>>)
      \cup Prefixes(GoldHead(100, 108) \o <<1>> \o GoldMod(0, 1) \o <<1, 3>>)

\* a mod block with download_link "" or "d" and every value of the byte
\* after it
GoldNullInputs ==
    {GoldHead(100, 108) \o <<1, 119, 0>> \o dl \o <<n>>
        \o <<1, 0, 0, 0, 0, 158, 247, 10, 0, 1>> \o <<1, 3>> :
        dl \in {<<0>>, <<100, 0>>}, n \in 0..255}

GoldSourceInfoInputs ==
    GoldFlagInputs \cup GoldEnumInputs \cup GoldPrefixInputs
      \cup GoldNullInputs

\* two player entries: (1, "AB", 14, 514.37036) and (2, "", -1, -1.0)
PlayerEntryBytes ==
    {<<1, 65, 66, 0, 14, 0, 0, 0, 180, 151, 0, 68>>,
     <<2, 0, 255, 255, 255, 255, 0, 0, 128, 191>>}

PlayerEntrySeqs == UNION {[1..k -> PlayerEntryBytes] : k \in 0..MaxPlayers}

\* a count byte, complete entries, then 0..MaxFill bytes that are no entry
\* (7s hold no terminator) or may be one (0s); and the empty buffer
PlayerInputs ==
    {<<c>> \o Flatten(es) \o [i \in 1..n |-> b] :
        c \in 0..MaxPlayers, es \in PlayerEntrySeqs,
        b \in {0, 7}, n \in 0..MaxFill}
      \cup {<<>>}

\* Longest buffer of the string family
MaxString == 4

\* An ASCII byte, the terminator, a UTF-8 lead byte and a continuation byte
StringBytes == {0, 48, 195, 169}

\* Every buffer over StringBytes up to MaxString bytes
StringFamily == UNION {[1..n -> StringBytes] : n \in 0..MaxString}

\* ping.rs tests: the payload of extra_payload, and the same without its
\* last byte
PingInputs ==
    StringFamily \cup {[i \in 1..14 |-> 48] \o <<0>>,
                        [i \in 1..14 |-> 48] \o <<0, 48>>}

\* Most name/value pairs in a RULES buffer
MaxRules == 3

\* num_rules on the wire: none, as many as there can be pairs and one more,
\* and negative ones
RuleCounts == {-32768, -2, -1} \cup (0..(MaxRules + 1))

\* A pair "n" : "v", a pair with both strings empty, a pair with a name only
RulePairs == {<<110, 0, 118, 0>>, <<0, 0>>, <<195, 169, 0, 0>>}

\* What follows the complete pairs: nothing, a cut name, a name and a cut
\* value, a name and no value, the three bytes of test payload_after_rules
RuleTails == {<<>>, <<110>>, <<110, 0, 118>>, <<0>>, <<255, 255, 255>>}

\* RULES payloads, and the buffers too short for num_rules
RulesInputs ==
    {LE16(c) \o Flatten(ps) \o t :
        c \in RuleCounts,
        ps \in UNION {[1..k -> RulePairs] : k \in 0..MaxRules},
        t \in RuleTails}
      \cup {<<>>, <<1>>}

\* Most bytes after the payload string of an INFO request
MaxTrail == 5

\* What an INFO request starts with: the payload of the protocol, the same
\* cut by a 0x00, with another last letter, with a letter more, without its
\* terminator, and nothing
RequestHeads ==
    {SourceEngineQuery \o <<0>>,
     SubSeq(SourceEngineQuery, 1, 6) \o <<0>> \o SubSeq(SourceEngineQuery, 8, 19)
       \o <<0>>,
     SubSeq(SourceEngineQuery, 1, 18) \o <<122, 0>>,
     SourceEngineQuery \o <<121, 0>>,
     SourceEngineQuery,
     <<>>}

\* INFO requests: a head followed by up to MaxTrail bytes
InfoRequestInputs ==
    {h \o t : h \in RequestHeads,
              t \in UNION {[1..n -> {0, 1, 255}] : n \in 0..MaxTrail}}

-----------------------------------------------------------------------------
(* One call of a public parser on a buffer chosen at the start             *)

Init ==
    /\ pc = "call"
    /\ result = <<>>
    /\ peer = <<>>
    /\ \/ fn = "parse_source_info" /\ input \in SourceInfoInputs /\ size = FALSE
       \/ fn = "parse_goldsource_info"
            /\ input \in GoldSourceInfoInputs /\ size = FALSE
       \/ fn = "parse_player" /\ input \in PlayerInputs /\ size = FALSE
       \/ fn = "is_payload_split" /\ input \in SplitInputs /\ size = FALSE
       \/ fn = "parse_source_multi_packet"
            /\ input \in SourceFragmentInputs /\ size \in BOOLEAN
       \/ fn = "parse_goldsource_multi_packet"
            /\ input \in GoldSourceFragmentInputs /\ size = FALSE
       \/ fn = "parse_single_packet" /\ input \in TaggedInputs /\ size = FALSE
       \/ fn = "message_type" /\ input \in TaggedInputs /\ size = FALSE
       \/ fn = "parse_ping" /\ input \in PingInputs /\ size = FALSE
       \/ fn = "parse_rules" /\ input \in RulesInputs /\ size = FALSE
       \/ fn = "parse_info_request"
            /\ input \in InfoRequestInputs /\ size = FALSE
       \/ fn = "c_string" /\ input \in StringFamily /\ size = FALSE

ParseSourceInfo ==
    /\ pc = "call" /\ fn = "parse_source_info"
    /\ result' = parse_source_info(input)
    /\ pc' = "done"
    /\ UNCHANGED <<fn, input, size, peer>>

ParseGoldsourceInfo ==
    /\ pc = "call" /\ fn = "parse_goldsource_info"
    /\ result' = parse_goldsource_info(input)
    /\ pc' = "done"
    /\ UNCHANGED <<fn, input, size, peer>>

ParsePlayer ==
    /\ pc = "call" /\ fn = "parse_player"
    /\ result' = parse_player(input)
    /\ pc' = "done"
    /\ UNCHANGED <<fn, input, size, peer>>

IsPayloadSplit ==
    /\ pc = "call" /\ fn = "is_payload_split"
    /\ result' = is_payload_split(input)
    /\ pc' = "done"
    /\ UNCHANGED <<fn, input, size, peer>>

ParseSourceMultiPacket ==
    /\ pc = "call" /\ fn = "parse_source_multi_packet"
    /\ result' = parse_source_multi_packet(input, size)
    /\ pc' = "done"
    /\ UNCHANGED <<fn, input, size, peer>>

ParseGoldsourceMultiPacket ==
    /\ pc = "call" /\ fn = "parse_goldsource_multi_packet"
    /\ result' = parse_goldsource_multi_packet(input)
    /\ pc' = "done"
    /\ UNCHANGED <<fn, input, size, peer>>

ParseSinglePacket ==
    /\ pc = "call" /\ fn = "parse_single_packet"
    /\ result' = parse_single_packet(input)
    /\ pc' = "done"
    /\ UNCHANGED <<fn, input, size, peer>>

MessageType ==
    /\ pc = "call" /\ fn = "message_type"
    /\ result' = message_type(input)
    /\ pc' = "done"
    /\ UNCHANGED <<fn, input, size, peer>>

ParsePing ==
    /\ pc = "call" /\ fn = "parse_ping"
    /\ result' = parse_ping(input)
    /\ pc' = "done"
    /\ UNCHANGED <<fn, input, size, peer>>

ParseRules ==
    /\ pc = "call" /\ fn = "parse_rules"
    /\ result' = parse_rules(input)
    /\ pc' = "done"
    /\ UNCHANGED <<fn, input, size, peer>>

ParseInfoRequest ==
    /\ pc = "call" /\ fn = "parse_info_request"
    /\ result' = parse_info_request(input)
    /\ pc' = "done"
    /\ UNCHANGED <<fn, input, size, peer>>

CString ==
    /\ pc = "call" /\ fn = "c_string"
    /\ result' = c_string(input, 1)
    /\ pc' = "done"
    /\ UNCHANGED <<fn, input, size, peer>>

Next ==
    \/ ParseSourceInfo
    \/ ParseGoldsourceInfo
    \/ ParsePlayer
    \/ IsPayloadSplit
    \/ ParseSourceMultiPacket
    \/ ParseGoldsourceMultiPacket
    \/ ParseSinglePacket
    \/ MessageType
    \/ ParsePing
    \/ ParseRules
    \/ ParseInfoRequest
    \/ CString

Spec == Init /\ [][Next]_vars

Returned(f) == pc = "done" /\ fn = f

-----------------------------------------------------------------------------
(* The same calls one read at a time: pc is the read that comes next, and  *)
(* result holds the cursor and what the decoder keeps of the fields read   *)

\* the values a decoder keeps to decide on later reads; mark is the cursor
\* many_m_n returns to when an entry fails, got the entries it has
Mem0 ==
    [app_id |-> 0, flag |-> 0, is_mod |-> FALSE, id |-> 0, number |-> 0,
     count |-> 0, got |-> 0, mark |-> 1]

\* At with one cursor for the running call and the waiting one
At_shared(p, m) ==
    [ok |-> TRUE,
     pos |-> IF peer.result.pos > p THEN peer.result.pos ELSE p,
     code |-> "", mem |-> m]

\* between two reads: the cursor p and the kept values m
At(p, m) == [ok |-> TRUE, pos |-> p, code |-> "", mem |-> m]

\* a read with outcome r followed by `?`: go on to the read `next` with the
\* cursor after r, or return the error of r
Try(r, next, m) ==
    IF r.ok
    THEN [pc |-> next, st |-> At(r.pos, m)]
    ELSE [pc |-> "failed",
          st |-> [ok |-> FALSE, pos |-> r.pos, code |-> r.code,
                  mem |-> result.mem]]

\* a read inside an entry of many_m_n(0, count, entry): an error ends the
\* repetition, with the cursor back at the start of the entry
TryEntry(r, next, m, after) ==
    IF r.ok
    THEN [pc |-> next, st |-> At(r.pos, m)]
    ELSE [pc |-> after, st |-> At(m.mark, [m EXCEPT !.got = 0])]

\* the last read of an entry: the entry is kept, and the repetition goes on
\* with the next entry until it has count of them
TryLast(r, again, m, after) ==
    IF r.ok
    THEN LET full == m.got + 1 = m.count IN
         [pc |-> IF full THEN after ELSE again,
          st |-> At(r.pos,
                    [m EXCEPT !.got = IF full THEN 0 ELSE m.got + 1,
                              !.mark = r.pos])]
    ELSE [pc |-> after, st |-> At(m.mark, [m EXCEPT !.got = 0])]

\* all_consuming, once the wrapped decoder has returned
Eof(p, m) == Try(all_consuming(input, POk(p, <<>>)), "done", m)

\* a call that has not returned
Running == pc \notin {"done", "failed"}

InitSteps ==
    /\ result = At(1, Mem0)
    /\ peer = <<>>
    /\ \/ /\ fn = "parse_source_info" /\ pc = "protocol"
          /\ input \in SourceInfoInputs /\ size = FALSE
       \/ /\ fn = "parse_goldsource_info" /\ pc = "address"
          /\ input \in GoldSourceInfoInputs /\ size = FALSE
       \/ /\ fn = "parse_player" /\ pc = "players"
          /\ input \in PlayerInputs /\ size = FALSE
       \/ /\ fn = "is_payload_split" /\ pc = "packet_header"
          /\ input \in SplitInputs /\ size = FALSE
       \/ /\ fn = "parse_source_multi_packet" /\ pc = "id"
          /\ input \in SourceFragmentInputs /\ size \in BOOLEAN
       \/ /\ fn = "parse_goldsource_multi_packet" /\ pc = "id"
          /\ input \in GoldSourceFragmentInputs /\ size = FALSE
       \/ /\ fn \in {"parse_single_packet", "message_type"}
          /\ pc = "payload_header"
          /\ input \in TaggedInputs /\ size = FALSE

\* source_info, the_ship, extra_data_fields and p_source_info
source_info_read ==
    LET p == result.pos
        m == result.mem IN
    CASE pc = "protocol" -> Try(le_u8(input, p), "name", m)
      [] pc = "name" -> Try(c_string(input, p), "map", m)
      [] pc = "map" -> Try(c_string(input, p), "folder", m)
      [] pc = "folder" -> Try(c_string(input, p), "game", m)
      [] pc = "game" -> Try(c_string(input, p), "app_id", m)
      [] pc = "app_id" ->
             LET r == le_i16(input, p) IN
             Try(r, "players", [m EXCEPT !.app_id = r.val])
      [] pc = "players" -> Try(le_u8(input, p), "max_players", m)
      [] pc = "max_players" -> Try(le_u8(input, p), "bots", m)
      [] pc = "bots" -> Try(le_u8(input, p), "server_type", m)
      [] pc = "server_type" -> Try(server_type(input, p), "environment", m)
      [] pc = "environment" -> Try(environment(input, p), "visibility", m)
      [] pc = "visibility" -> Try(parse_bool(input, p), "vac", m)
      [] pc = "vac" ->
             Try(parse_bool(input, p),
                 IF is_ship(m.app_id) THEN "mode" ELSE "version", m)
      [] pc = "mode" -> Try(le_u8(input, p), "witnesses", m)
      [] pc = "witnesses" -> Try(le_u8(input, p), "duration", m)
      [] pc = "duration" -> Try(le_u8(input, p), "version", m)
      [] pc = "version" -> Try(c_string(input, p), "edf", m)
      [] pc = "edf" ->
             LET r == opt_le_u8(input, p) IN
             Try(r, "port",
                 [m EXCEPT !.flag = IF r.val = None THEN 0 ELSE r.val[1]])
      [] pc = "port" -> Try(port(input, p, m.flag), "steam_id", m)
      [] pc = "steam_id" ->
             Try(steam_id(input, p, m.flag), "source_tv_port", m)
      [] pc = "source_tv_port" ->
             Try(source_tv_port(input, p, m.flag), "source_tv_name", m)
      [] pc = "source_tv_name" ->
             Try(source_tv_name(input, p, m.flag), "keywords", m)
      [] pc = "keywords" -> Try(keywords(input, p, m.flag), "game_id", m)
      [] pc = "game_id" -> Try(game_id(input, p, m.flag), "eof", m)
      [] pc = "eof" -> Eof(p, m)

StepSourceInfo ==
    /\ fn = "parse_source_info" /\ Running
    /\ pc' = source_info_read.pc
    /\ result' = source_info_read.st
    /\ UNCHANGED <<fn, input, size, peer>>

\* goldsource_info, mod_fields and p_goldsource_info
goldsource_info_read ==
    LET p == result.pos
        m == result.mem IN
    CASE pc = "address" -> Try(c_string(input, p), "name", m)
      [] pc = "name" -> Try(c_string(input, p), "map", m)
      [] pc = "map" -> Try(c_string(input, p), "folder", m)
      [] pc = "folder" -> Try(c_string(input, p), "game", m)
      [] pc = "game" -> Try(c_string(input, p), "players", m)
      [] pc = "players" -> Try(le_u8(input, p), "max_players", m)
      [] pc = "max_players" -> Try(le_u8(input, p), "protocol", m)
      [] pc = "protocol" -> Try(le_u8(input, p), "server_type", m)
      [] pc = "server_type" -> Try(server_type(input, p), "environment", m)
      [] pc = "environment" -> Try(environment(input, p), "visibility", m)
      [] pc = "visibility" -> Try(parse_bool(input, p), "mod_half_life", m)
      [] pc = "mod_half_life" ->
             LET r == parse_bool(input, p) IN
             Try(r, IF r.ok /\ r.val THEN "link" ELSE "vac",
                 [m EXCEPT !.is_mod = r.val])
      [] pc = "link" -> Try(c_string(input, p), "download_link", m)
      [] pc = "download_link" -> Try(c_string(input, p), "null", m)
      [] pc = "null" ->
             LET k == parse_null(input, p) IN
             Try(IF k.ok THEN POk(k.pos, <<>>) ELSE k, "version", m)
      [] pc = "version" -> Try(le_i32(input, p), "size", m)
      [] pc = "size" -> Try(le_i32(input, p), "mod_type", m)
      [] pc = "mod_type" -> Try(mod_type(input, p), "dll", m)
      [] pc = "dll" -> Try(dll(input, p), "vac", m)
      [] pc = "vac" -> Try(parse_bool(input, p), "bots", m)
      [] pc = "bots" -> Try(le_u8(input, p), "eof", m)
      [] pc = "eof" -> Eof(p, m)

StepGoldsourceInfo ==
    /\ fn = "parse_goldsource_info" /\ Running
    /\ pc' = goldsource_info_read.pc
    /\ result' = goldsource_info_read.st
    /\ UNCHANGED <<fn, input, size, peer>>

\* player, many_player_data, many_the_ship_data and p_player
player_read ==
    LET p == result.pos
        m == result.mem IN
    CASE pc = "players" ->
             LET r == le_u8(input, p) IN
             Try(r, IF r.ok /\ r.val = 0 THEN "eof" ELSE "index",
                 [m EXCEPT !.count = r.val, !.got = 0, !.mark = r.pos])
      [] pc = "index" -> TryEntry(le_u8(input, p), "name", m, "deaths")
      [] pc = "name" -> TryEntry(c_string(input, p), "score", m, "deaths")
      [] pc = "score" -> TryEntry(le_i32(input, p), "duration", m, "deaths")
      [] pc = "duration" -> TryLast(le_f32(input, p), "index", m, "deaths")
      [] pc = "deaths" -> TryEntry(le_i32(input, p), "money", m, "eof")
      [] pc = "money" -> TryLast(le_i32(input, p), "deaths", m, "eof")
      [] pc = "eof" -> Eof(p, m)

StepPlayer ==
    /\ fn = "parse_player" /\ Running
    /\ pc' = player_read.pc
    /\ result' = player_read.st
    /\ UNCHANGED <<fn, input, size, peer>>

\* is_split
is_split_read ==
    LET r == le_i32(input, result.pos) IN
    Try(IF r.ok /\ ~(r.val = -1 \/ r.val = -2)
        THEN PErr(r.pos, "NoneOf") ELSE r,
        "done", result.mem)

StepIsSplit ==
    /\ fn = "is_payload_split" /\ Running
    /\ pc' = is_split_read.pc
    /\ result' = is_split_read.st
    /\ UNCHANGED <<fn, input, size, peer>>

\* message_header, alone or at the start of single_packet
single_packet_read ==
    LET p == result.pos
        m == result.mem IN
    CASE pc = "payload_header" ->
             LET r == message_header(input, p) IN
             IF fn = "message_type" THEN Try(r, "done", m)
             ELSE Try(IF r.ok /\ r.val = <<"Invalid">>
                      THEN PErr(r.pos, "NoneOf") ELSE r,
                      "payload", m)
      [] pc = "payload" -> Try(rest(input, p), "done", m)

StepSinglePacket ==
    /\ fn \in {"parse_single_packet", "message_type"} /\ Running
    /\ pc' = single_packet_read.pc
    /\ result' = single_packet_read.st
    /\ UNCHANGED <<fn, input, size, peer>>

\* source_multi_packet
source_multi_packet_read ==
    LET p == result.pos
        m == result.mem
        compressed == payload_compressed(m.number, m.id) IN
    CASE pc = "id" ->
             LET r == le_i32(input, p) IN
             Try(r, "total_packets", [m EXCEPT !.id = r.val])
      [] pc = "total_packets" -> Try(le_u8(input, p), "packet_number", m)
      [] pc = "packet_number" ->
             LET r == le_u8(input, p) IN
             Try(r, "size", [m EXCEPT !.number = r.val])
      [] pc = "size" ->
             Try(size_field(input, p, size), "decompressed_size", m)
      [] pc = "decompressed_size" ->
             Try(compressed_i32(input, p, compressed), "crc32_checksum", m)
      [] pc = "crc32_checksum" ->
             Try(compressed_i32(input, p, compressed), "payload", m)
      [] pc = "payload" -> Try(rest(input, p), "done", m)

StepSourceMultiPacket ==
    /\ fn = "parse_source_multi_packet" /\ Running
    /\ pc' = source_multi_packet_read.pc
    /\ result' = source_multi_packet_read.st
    /\ UNCHANGED <<fn, input, size, peer>>

\* goldsource_multi_packet
goldsource_multi_packet_read ==
    LET p == result.pos
        m == result.mem IN
    CASE pc = "id" -> Try(le_i32(input, p), "packet_number", m)
      [] pc = "packet_number" -> Try(le_u8(input, p), "payload", m)
      [] pc = "payload" -> Try(rest(input, p), "done", m)

StepGoldsourceMultiPacket ==
    /\ fn = "parse_goldsource_multi_packet" /\ Running
    /\ pc' = goldsource_multi_packet_read.pc
    /\ result' = goldsource_multi_packet_read.st
    /\ UNCHANGED <<fn, input, size, peer>>

NextSteps ==
    \/ StepSourceInfo
    \/ StepGoldsourceInfo
    \/ StepPlayer
    \/ StepIsSplit
    \/ StepSinglePacket
    \/ StepSourceMultiPacket
    \/ StepGoldsourceMultiPacket

SpecSteps == InitSteps /\ [][NextSteps]_vars

\* Two calls on buffers of their own, their reads interleaved: fn, input,
\* size, pc and result are the arguments and locals of the call that runs,
\* peer holds those of the call that waits

\* the first read of each decoder
StartOf(f) ==
    CASE f = "parse_source_info" -> "protocol"
      [] f = "parse_goldsource_info" -> "address"
      [] f = "parse_player" -> "players"
      [] f = "is_payload_split" -> "packet_header"
      [] f = "parse_source_multi_packet" -> "id"
      [] f = "parse_goldsource_multi_packet" -> "id"
      [] f = "parse_single_packet" -> "payload_header"
      [] f = "message_type" -> "payload_header"

\* the calls that are paired: for each decoder a buffer that decodes and one
\* that is cut short or has bytes left over
PairCalls ==
    {[fn |-> "parse_source_info", size |-> FALSE, input |-> b] :
        b \in {InfoHead(240) \o InfoVersion \o <<177>> \o Knots(20),
               InfoHead(240) \o InfoVersion,
               InfoHead(2400) \o <<1, 3>>}}
      \cup
    {[fn |-> "parse_goldsource_info", size |-> FALSE, input |-> b] :
        b \in {GoldHead(100, 108) \o <<0, 1, 3>>,
               GoldHead(100, 108) \o <<1>> \o GoldMod(0, 1) \o <<1, 3, 7>>}}
      \cup
    {[fn |-> "parse_player", size |-> FALSE, input |-> b] :
        b \in {<<2, 1, 65, 66, 0, 14, 0, 0, 0, 180, 151, 0, 68>>,
               <<1, 2, 0, 255, 255, 255, 255, 0, 0, 128, 191>>}}
      \cup
    {[fn |-> "is_payload_split", size |-> FALSE, input |-> b] :
        b \in {<<254, 255, 255, 255>>, <<255, 255>>}}
      \cup
    {[fn |-> "parse_source_multi_packet", size |-> TRUE, input |-> b] :
        b \in {<<255, 255, 255, 255, 2, 0>> \o Ramp(12),
               <<255, 255, 255, 255, 2, 0>> \o Ramp(5)}}
      \cup
    {[fn |-> "parse_goldsource_multi_packet", size |-> FALSE, input |-> b] :
        b \in {<<1, 0, 0, 0, 33, 9>>, <<1, 0, 0>>}}
      \cup
    {[fn |-> f, size |-> FALSE, input |-> b] :
        f \in {"parse_single_packet", "message_type"},
        b \in {<<73, 17>>, <<>>}}

\* a call before its first read: the cursor at the first byte, nothing kept
Called(c) ==
    [fn |-> c.fn, input |-> c.input, size |-> c.size,
     pc |-> StartOf(c.fn),
     result |-> [ok |-> TRUE, pos |-> 1, code |-> "", mem |-> Mem0]]

\* the call that runs, as peer holds the call that waits
RunningCall ==
    [fn |-> fn, input |-> input, size |-> size, pc |-> pc,
     result |-> result]

InitPair ==
    /\ peer \in {Called(c) : c \in PairCalls}
    /\ \E c \in PairCalls :
          /\ fn = c.fn /\ input = c.input /\ size = c.size
          /\ pc = StartOf(c.fn) /\ result = At(1, Mem0)

\* the scheduler lets the other call run: each call keeps its own arguments
\* and locals
Switch ==
    /\ fn' = peer.fn /\ input' = peer.input /\ size' = peer.size
    /\ pc' = peer.pc /\ result' = peer.result
    /\ peer' = RunningCall

NextPair ==
    \/ StepSourceInfo
    \/ StepGoldsourceInfo
    \/ StepPlayer
    \/ StepIsSplit
    \/ StepSinglePacket
    \/ StepSourceMultiPacket
    \/ StepGoldsourceMultiPacket
    \/ Switch

SpecPair == InitPair /\ [][NextPair]_vars

\* the decoder a call runs, as a whole
Whole ==
    CASE fn = "parse_source_info" -> p_source_info(input, 1)
      [] fn = "parse_goldsource_info" -> p_goldsource_info(input, 1)
      [] fn = "parse_player" -> p_player(input, 1)
      [] fn = "is_payload_split" -> is_split(input, 1)
      [] fn = "parse_single_packet" -> single_packet(input, 1)
      [] fn = "message_type" -> message_header(input, 1)
      [] fn = "parse_source_multi_packet" ->
             source_multi_packet(input, 1, size)
      [] fn = "parse_goldsource_multi_packet" ->
             goldsource_multi_packet(input, 1)

\* read by read, a call ends where the decoder as a whole ends, with the
\* same error
StepsAgree ==
    pc \in {"done", "failed"} =>
        /\ (pc = "done") = Whole.ok
        /\ result.ok = Whole.ok
        /\ result.pos = Whole.pos
        /\ result.code = Whole.code

-----------------------------------------------------------------------------
(* Source INFO decoding (info.rs)                                          *)

\* C1: in every Source INFO record each optional field is present exactly
\* when its own EDF bit is set: port 0x80, steam_id 0x10, source_tv_port and
\* source_tv_name 0x40, keywords 0x20, game_id 0x01.
C1_FieldPresentIffOwnBit ==
    (Returned("parse_source_info") /\ result.ok) =>
        LET f == result.val.extra_data_flag
            x == result.val.extra_data_fields IN
        /\ (x.port # None) = BitSet(f, 128)
        /\ (x.steam_id # None) = BitSet(f, 16)
        /\ (x.source_tv_port # None) = BitSet(f, 64)
        /\ (x.source_tv_name # None) = BitSet(f, 64)
        /\ (x.keywords # None) = BitSet(f, 32)
        /\ (x.game_id # None) = BitSet(f, 1)

\* app ids for which the Ship fields are on the wire
ShipAppIds == {2400, 2401, 2402, 2412, 2430, 2405, 2406}

\* cursor of the byte after vac in a Source INFO buffer whose strings end
AfterVac(buf) ==
    LET name == c_string(buf, 2)
        map == c_string(buf, name.pos)
        folder == c_string(buf, map.pos)
        game == c_string(buf, folder.pos) IN
    game.pos + 9

\* C2: the_ship is Some, holding the three bytes between vac and the version
\* string, iff app_id is one of 2400, 2401, 2402, 2412, 2430, 2405, 2406; for
\* every other app_id it is None and the version starts right after vac.
C2_ShipFieldsIffShipAppId ==
    (Returned("parse_source_info") /\ result.ok) =>
        LET v == result.val
            p == AfterVac(input) IN
        IF v.app_id \in ShipAppIds
        THEN /\ p + 2 <= Len(input)
             /\ v.the_ship = Some([mode |-> TheShipGameModeFrom(input[p]),
                                   witnesses |-> input[p + 1],
                                   duration |-> input[p + 2]])
             /\ v.version = c_string(input, p + 3).val
        ELSE /\ v.the_ship = None
             /\ v.version = c_string(input, p).val

\* the four strings of a Source INFO buffer end and vac is in the buffer
HeadOnWire(buf) ==
    LET name == c_string(buf, 2)
        map == c_string(buf, name.pos)
        folder == c_string(buf, map.pos)
        game == c_string(buf, folder.pos) IN
    /\ Len(buf) >= 1 /\ name.ok /\ map.ok /\ folder.ok /\ game.ok
    /\ AfterVac(buf) - 1 <= Len(buf)

\* app_id as it is on the wire of a buffer with HeadOnWire
WireAppId(buf) == le_i16(buf, AfterVac(buf) - 9).val

\* cursor of the version string on the wire: after the three Ship bytes for
\* the app ids that have them, else after vac
WireVersion(buf) ==
    AfterVac(buf) + (IF WireAppId(buf) \in ShipAppIds THEN 3 ELSE 0)

\* the buffer ends with the terminator of the version string
EndsAfterVersion(buf) ==
    /\ HeadOnWire(buf)
    /\ WireVersion(buf) <= Len(buf)
    /\ c_string(buf, WireVersion(buf)).ok
    /\ c_string(buf, WireVersion(buf)).pos = Len(buf) + 1

NoExtraData ==
    [port |-> None, steam_id |-> None, source_tv_port |-> None,
     source_tv_name |-> None, keywords |-> None, game_id |-> None]

\* C13: a Source INFO buffer that ends with the terminator of the version
\* string, with or without the Ship fields before it, decodes without error
\* to a record with extra_data_flag = 0 and no optional field.
C13_NoEdfByteIsFlagZero ==
    (Returned("parse_source_info") /\ EndsAfterVersion(input)) =>
        /\ result.ok
        /\ result.val.extra_data_flag = 0
        /\ result.val.extra_data_fields = NoExtraData

\* what holds of the code: the same, for the version string where the code
\* looks for it (after three Ship bytes for app id 2400 only)
C13_NoEdfByteWhereCodeReadsVersion ==
    (/\ Returned("parse_source_info")
     /\ HeadOnWire(input)
     /\ LET q == AfterVac(input)
                    + (IF is_ship(WireAppId(input)) THEN 3 ELSE 0) IN
        /\ q <= Len(input)
        /\ c_string(input, q).ok
        /\ c_string(input, q).pos = Len(input) + 1) =>
        /\ result.ok
        /\ result.val.extra_data_flag = 0
        /\ result.val.extra_data_fields = NoExtraData

\* the record decoder a public INFO parser wraps, applied to the input
InfoRecord ==
    IF fn = "parse_source_info" THEN source_info(input, 1)
    ELSE goldsource_info(input, 1)

InfoReturned ==
    Returned("parse_source_info") \/ Returned("parse_goldsource_info")

C15_RemainderAccepted ==
    (InfoReturned /\ InfoRecord.ok) =>
        /\ result.ok
        /\ result.val = InfoRecord.val

\* cursor of the mod flag of a GoldSource INFO buffer whose strings end
ModFlagAt(buf) ==
    LET address == c_string(buf, 1)
        name == c_string(buf, address.pos)
        map == c_string(buf, name.pos)
        folder == c_string(buf, map.pos)
        game == c_string(buf, folder.pos) IN
    game.pos + 6

\* C16: in a GoldSource INFO record mod_fields is Some iff the mod flag byte
\* is nonzero; after a flag of 0 the next two bytes are vac and bots; after a
\* nonzero flag come link, download_link, a null byte, version, size,
\* mod_type and dll, and then vac and bots.
C16_ModBlockIffFlag ==
    (Returned("parse_goldsource_info") /\ result.ok) =>
        LET v == result.val
            F == ModFlagAt(input) IN
        /\ v.mod_half_life = (input[F] # 0)
        /\ (v.mod_fields # None) = (input[F] # 0)
        /\ IF input[F] = 0
           THEN /\ Len(input) = F + 2
                /\ v.vac = (input[F + 1] # 0)
                /\ v.bots = input[F + 2]
           ELSE LET link == c_string(input, F + 1)
                    download_link == c_string(input, link.pos)
                    n == download_link.pos IN
                /\ link.ok /\ download_link.ok
                /\ Len(input) = n + 12
                /\ input[n] = 0
                /\ v.mod_fields =
                      Some([link |-> link.val,
                            download_link |-> download_link.val,
                            version |-> le_i32(input, n + 1).val,
                            size |-> le_i32(input, n + 5).val,
                            mod_type |-> ModTypeFrom(input[n + 9]),
                            dll |-> ModDLLFrom(input[n + 10])])
                /\ v.vac = (input[n + 11] # 0)
                /\ v.bots = input[n + 12]

C16_Witness ==
    /\ Returned("parse_goldsource_info") /\ result.ok
    /\ input[ModFlagAt(input)] = 255
    /\ result.val.mod_fields # None
    /\ result.val.mod_fields[1].size = 184000000
    /\ result.val.vac /\ result.val.bots = 3

\* the value an enum byte b stands for: Other(b) outside the known bytes, a
\* named variant without payload inside them
EnumValueOk(v, b, known) ==
    IF b \in known THEN Len(v) = 1 /\ v[1] # "Other" ELSE v = <<"Other", b>>

ServerTypeBytes == {68, 100, 76, 108, 80, 112}

EnvironmentBytes == {76, 108, 87, 119, 77, 109, 79, 111}

\* the enum fields of a decoded INFO record stand for the bytes they were
\* read from
EnumFieldsOk ==
    /\ (Returned("parse_source_info") /\ result.ok) =>
          LET v == result.val
              p == AfterVac(input) IN
          /\ EnumValueOk(v.server_type, input[p - 4], ServerTypeBytes)
          /\ EnumValueOk(v.environment, input[p - 3], EnvironmentBytes)
          /\ v.the_ship # None =>
                EnumValueOk(v.the_ship[1].mode, input[p], 0..5)
    /\ (Returned("parse_goldsource_info") /\ result.ok) =>
          LET v == result.val
              F == ModFlagAt(input) IN
          /\ EnumValueOk(v.server_type, input[F - 3], ServerTypeBytes)
          /\ EnumValueOk(v.environment, input[F - 2], EnvironmentBytes)
          /\ v.mod_fields # None =>
                /\ EnumValueOk(v.mod_fields[1].mod_type,
                               input[Len(input) - 3], {0, 1})
                /\ EnumValueOk(v.mod_fields[1].dll,
                               input[Len(input) - 2], {0, 1})

\* C17: every value of an enum byte converts, to Other(b) when b is not a
\* known value, and a buffer that decodes still decodes with an enum byte
\* (server_type, environment, mod_type, dll, Ship mode) changed to any value.
C17_EnumBytesNeverFail ==
    /\ EnumFieldsOk
    /\ (Returned("parse_source_info") /\ input \in InfoEnumInputs) => result.ok
    /\ (Returned("parse_goldsource_info") /\ input \in GoldEnumInputs) =>
          result.ok

\* what holds of the code: the same, the Ship mode byte of app ids other than
\* 2400 left out
C17_EnumBytesTheCodeConverts ==
    /\ EnumFieldsOk
    /\ (/\ Returned("parse_source_info")
        /\ input \in InfoEnumInputs
        /\ is_ship(WireAppId(input)) = (WireAppId(input) \in ShipAppIds)) =>
          result.ok
    /\ (Returned("parse_goldsource_info") /\ input \in GoldEnumInputs) =>
          result.ok

\* cursor of the byte after the terminator of download_link in a GoldSource
\* INFO buffer with a nonzero mod flag; 0 when the buffer ends before that
\* terminator
AfterDownloadLink(buf) ==
    LET address == c_string(buf, 1)
        name == c_string(buf, address.pos)
        map == c_string(buf, name.pos)
        folder == c_string(buf, map.pos)
        game == c_string(buf, folder.pos)
        F == ModFlagAt(buf) IN
    IF ~(address.ok /\ name.ok /\ map.ok /\ folder.ok /\ game.ok) THEN 0
    ELSE IF F > Len(buf) THEN 0
    ELSE IF buf[F] = 0 THEN 0
    ELSE LET link == c_string(buf, F + 1) IN
         IF ~link.ok THEN 0
         ELSE LET download_link == c_string(buf, link.pos) IN
              IF ~download_link.ok THEN 0 ELSE download_link.pos

\* C27: in a GoldSource INFO buffer with the mod flag set, a byte other than
\* 0x00 after the terminator of download_link, or no byte there, gives an
\* error and no record; a 0x00 there is the one byte between download_link
\* and version.
C27_NullByteAfterDownloadLink ==
    (Returned("parse_goldsource_info") /\ AfterDownloadLink(input) # 0) =>
        LET n == AfterDownloadLink(input) IN
        /\ (n > Len(input) \/ input[n] # 0) => ~result.ok
        /\ result.ok =>
              /\ input[n] = 0
              /\ result.val.mod_fields # None
              /\ result.val.mod_fields[1].version = le_i32(input, n + 1).val

\* a mod block with 0x01 after download_link "d" has been rejected
C27_Witness ==
    /\ Returned("parse_goldsource_info") /\ AfterDownloadLink(input) = 22
    /\ Len(input) = 34 /\ input[22] = 1
    /\ ~result.ok /\ result.err.code = "Char"

\* a mod block with 0x00 after download_link "d" has been decoded
C27_NullByteRead ==
    /\ Returned("parse_goldsource_info") /\ AfterDownloadLink(input) = 22
    /\ input[22] = 0
    /\ result.ok /\ result.val.mod_fields[1].version = 1

\* cursor after a field of n bytes read at pos when it is present, 0 when it
\* does not fit in the buffer (or pos is 0 already)
WireFixed(buf, pos, present, n) ==
    IF pos = 0 THEN 0
    ELSE IF ~present THEN pos
    ELSE IF pos + n - 1 <= Len(buf) THEN pos + n
    ELSE 0

\* the same for a null-terminated string
WireString(buf, pos, present) ==
    IF pos = 0 THEN 0
    ELSE IF ~present THEN pos
    ELSE IF c_string(buf, pos).ok THEN c_string(buf, pos).pos
    ELSE 0

\* a field the wire format of a Source INFO buffer requires, given its app id
\* and EDF byte, is cut short by the end of the buffer
SourceInfoCutShort(buf) ==
    \/ ~HeadOnWire(buf)
    \/ LET q == WireFixed(buf, AfterVac(buf),
                          WireAppId(buf) \in ShipAppIds, 3)
           v == WireString(buf, q, TRUE) IN
       \/ v = 0
       \/ /\ v <= Len(buf)
          /\ LET f == buf[v]
                 a == WireFixed(buf, v + 1, BitSet(f, 128), 2)
                 b == WireFixed(buf, a, BitSet(f, 16), 8)
                 c == WireFixed(buf, b, BitSet(f, 64), 2)
                 d == WireString(buf, c, BitSet(f, 64))
                 e == WireString(buf, d, BitSet(f, 32))
                 g == WireFixed(buf, e, BitSet(f, 1), 8) IN
             g = 0

\* the same for a GoldSource INFO buffer, given its mod flag
GoldSourceInfoCutShort(buf) ==
    LET address == c_string(buf, 1)
        name == c_string(buf, address.pos)
        map == c_string(buf, name.pos)
        folder == c_string(buf, map.pos)
        game == c_string(buf, folder.pos)
        F == ModFlagAt(buf) IN
    \/ ~(address.ok /\ name.ok /\ map.ok /\ folder.ok /\ game.ok)
    \/ F > Len(buf)
    \/ LET l == WireString(buf, F + 1, buf[F] # 0)
           dl == WireString(buf, l, buf[F] # 0)
           m == WireFixed(buf, dl, buf[F] # 0, 11) IN
       WireFixed(buf, m, TRUE, 2) = 0

\* C19: an INFO buffer that ends inside, or before, a fixed-width field or
\* string which the fields and flags before it require decodes to an error,
\* never to a record.
C19_CutShortIsAnError ==
    /\ (Returned("parse_source_info") /\ SourceInfoCutShort(input)) =>
          ~result.ok
    /\ (Returned("parse_goldsource_info") /\ GoldSourceInfoCutShort(input)) =>
          ~result.ok

\* what holds of the code: the same, apart from game_id under EDF bit 0x01
\* without bit 0x20 and the Ship bytes of app ids other than 2400
C19_CutShortWhereCodeReads ==
    /\ (/\ Returned("parse_source_info")
        /\ SourceInfoCutShort(input)
        /\ HeadOnWire(input) =>
              /\ is_ship(WireAppId(input)) = (WireAppId(input) \in ShipAppIds)
              /\ LET v == c_string(input,
                                   AfterVac(input)
                                     + (IF is_ship(WireAppId(input))
                                        THEN 3 ELSE 0)) IN
                 (v.ok /\ v.pos <= Len(input)) =>
                     (BitSet(input[v.pos], 1) => BitSet(input[v.pos], 32))) =>
          ~result.ok
    /\ (Returned("parse_goldsource_info") /\ GoldSourceInfoCutShort(input)) =>
          ~result.ok

\* cursor of the EDF byte of a Source INFO buffer without Ship fields, 0 when
\* the buffer has none
WireEdf(buf) ==
    IF ~HeadOnWire(buf) \/ WireAppId(buf) \in ShipAppIds THEN 0
    ELSE LET v == WireString(buf, AfterVac(buf), TRUE) IN
         IF v = 0 \/ v > Len(buf) THEN 0 ELSE v

\* cursors of the optional fields after the EDF byte at v, each where the
\* previous field with its bit set ends: port, steam_id, source_tv_port,
\* source_tv_name, keywords, game_id and the end; 0 from the first field the
\* buffer cuts short
WireExtra(buf, v) ==
    LET f == buf[v]
        a == WireFixed(buf, v + 1, BitSet(f, 128), 2)
        b == WireFixed(buf, a, BitSet(f, 16), 8)
        c == WireFixed(buf, b, BitSet(f, 64), 2)
        d == WireString(buf, c, BitSet(f, 64))
        e == WireString(buf, d, BitSet(f, 32))
        g == WireFixed(buf, e, BitSet(f, 1), 8) IN
    [port |-> v + 1, steam_id |-> a, source_tv_port |-> b,
     source_tv_name |-> c, keywords |-> d, game_id |-> e, end |-> g]

\* the buffer is a Source INFO record whose optional fields, laid out in that
\* order for its EDF byte, end with the buffer
ExtraLaidOut(buf) ==
    /\ WireEdf(buf) # 0
    /\ WireExtra(buf, WireEdf(buf)).end = Len(buf) + 1

\* the optional fields of the record are the bytes at the cursors of
\* WireExtra, for the bits of the EDF byte that are set
ExtraReadInOrder ==
    LET v == WireEdf(input)
        f == input[v]
        w == WireExtra(input, v)
        x == result.val.extra_data_fields IN
    /\ result.ok
    /\ result.val.extra_data_flag = f
    /\ x.port = (IF BitSet(f, 128) THEN Some(le_i16(input, w.port).val)
                 ELSE None)
    /\ x.steam_id = (IF BitSet(f, 16) THEN Some(le_u64(input, w.steam_id).val)
                     ELSE None)
    /\ x.source_tv_port
         = (IF BitSet(f, 64) THEN Some(le_i16(input, w.source_tv_port).val)
            ELSE None)
    /\ x.source_tv_name
         = (IF BitSet(f, 64) THEN Some(c_string(input, w.source_tv_name).val)
            ELSE None)
    /\ x.keywords = (IF BitSet(f, 32) THEN Some(c_string(input, w.keywords).val)
                     ELSE None)
    /\ x.game_id = (IF BitSet(f, 1) THEN Some(le_u64(input, w.game_id).val)
                    ELSE None)

\* C25: the optional fields of a Source INFO record are read after the EDF
\* byte in the order port (2 bytes), steam_id (8), source_tv_port (2),
\* source_tv_name, keywords, game_id (8), each where the previous field with
\* its bit set ended.
C25_ExtraFieldsInFixedOrder ==
    (Returned("parse_source_info") /\ ExtraLaidOut(input)) => ExtraReadInOrder

\* what holds of the code: the same when the bits of keywords (0x20) and of
\* game_id (0x01) are both set or both clear, EDF 0xB1 included
C25_OrderWhereCodeReadsGameId ==
    (/\ Returned("parse_source_info") /\ ExtraLaidOut(input)
     /\ BitSet(input[WireEdf(input)], 32) = BitSet(input[WireEdf(input)], 1))
        => ExtraReadInOrder

\* EDF 0xB1 has been decoded: port, steam_id, keywords "\v", game_id
C25_Edf0xB1Read ==
    /\ Returned("parse_source_info") /\ ExtraLaidOut(input)
    /\ input[WireEdf(input)] = 177
    /\ result.ok
    /\ result.val.extra_data_fields.port = Some(513)
    /\ result.val.extra_data_fields.source_tv_port = None
    /\ result.val.extra_data_fields.keywords = Some(<<11>>)
    /\ result.val.extra_data_fields.game_id # None

-----------------------------------------------------------------------------
(* PLAYER decoding (player.rs)                                             *)

\* the first pass of a PLAYER buffer that has its count byte
FirstPass == many_player_data(input, 2, input[1])

\* the second pass, from where the first stopped
SecondPass == many_the_ship_data(input, FirstPass.pos, input[1])

\* C3: with n entries from the first pass and m Ship pairs from the second,
\* every entry i carries the i-th pair when m = n, and every entry has
\* ship_data = None when m # n.
C3_ShipDataOnlyOnEqualLengths ==
    (Returned("parse_player") /\ result.ok) =>
        LET pd == result.val.player_data
            n == Len(FirstPass.val)
            m == Len(SecondPass.val) IN
        /\ Len(pd) = n
        /\ \A i \in 1..n :
              pd[i].ship_data =
                  IF m = n THEN Some(SecondPass.val[i]) ELSE None

\* the entry a complete player entry of PlayerEntryBytes stands for
PlayerEntryOf(e) ==
    IF e[1] = 1
    THEN [index |-> 1, name |-> <<65, 66>>, score |-> 14,
          duration |-> <<38836, 17408>>, ship_data |-> None]
    ELSE [index |-> 2, name |-> <<>>, score |-> -1,
          duration |-> <<0, 49024>>, ship_data |-> None]

\* C4: a count byte followed by fewer complete entries than it declares
\* decodes without error: players is the declared count and player_data is
\* the complete entries in wire order.
C4_FewerEntriesThanDeclared ==
    Returned("parse_player") =>
        \A es \in PlayerEntrySeqs :
            (/\ Len(input) >= 1
             /\ Len(es) < input[1]
             /\ input = <<input[1]>> \o Flatten(es))
            => /\ result.ok
               /\ result.val.players = input[1]
               /\ result.val.player_data =
                      [i \in 1..Len(es) |-> PlayerEntryOf(es[i])]
               /\ Len(result.val.player_data) < result.val.players

C4_Witness ==
    /\ Returned("parse_player") /\ result.ok
    /\ input = <<2, 1, 65, 66, 0, 14, 0, 0, 0, 180, 151, 0, 68>>
    /\ result.val.players = 2
    /\ Len(result.val.player_data) = 1

\* C5: PLAYER decode of the empty buffer succeeds with players = 0 and no
\* player_data.
C5_EmptyBufferIsEmptyRecord ==
    (Returned("parse_player") /\ input = <<>>) =>
        /\ result.ok
        /\ result.val.players = 0
        /\ result.val.player_data = <<>>

\* C6: when a byte is left after the entry pass and the Ship pass,
\* parse_player returns an error; a record is returned only when both passes
\* consumed the whole buffer.
C6_TrailingBytesAreAnError ==
    (Returned("parse_player") /\ Len(input) >= 1) =>
        /\ SecondPass.pos <= Len(input) => ~result.ok
        /\ result.ok => SecondPass.pos = Len(input) + 1

C6_Witness ==
    /\ Returned("parse_player") /\ ~result.ok
    /\ Len(input) >= 1
    /\ Len(FirstPass.val) = 2
    /\ Len(SecondPass.val) = 1
    /\ SecondPass.pos <= Len(input)
    /\ result.err.input = Rest(input, SecondPass.pos)

-----------------------------------------------------------------------------
(* Fragment and envelope decoding (packet.rs)                              *)

\* the control byte of a GoldSource fragment: the byte after the 4-byte id
ControlByte == input[5]

\* C7: a GoldSource fragment's packet_number is the high nibble of the control
\* byte and its total_packets is the low nibble of the same byte.
C7_NibblesOfControlByte ==
    (Returned("parse_goldsource_multi_packet") /\ result.ok) =>
        /\ result.val.packet_number = ControlByte \div 16
        /\ result.val.total_packets = ControlByte % 16

\* what the code returns instead: both fields are the high nibble
C7_BothHighNibble ==
    (Returned("parse_goldsource_multi_packet") /\ result.ok) =>
        /\ result.val.packet_number = ControlByte \div 16
        /\ result.val.total_packets = ControlByte \div 16

\* cursor of the first byte after id, total, number and the size field
AfterSize == IF size THEN 9 ELSE 7

\* the wire says compressed: packet number byte 0 and the id's sign bit set
WireCompressed == input[6] = 0 /\ input[4] >= 128

\* C8: a Source fragment carries compression metadata, and is marked
\* compressed, exactly when packet_number = 0 and id < 0; decompressed_size
\* and crc32_checksum are Some together (the 8 bytes after the size field) or
\* None together.
C8_CompressionIffFirstAndNegative ==
    (Returned("parse_source_multi_packet") /\ result.ok) =>
        LET v == result.val
            c == v.packet_number = 0 /\ v.id < 0 IN
        /\ c = WireCompressed
        /\ v.payload_compressed = c
        /\ (v.decompressed_size # None) = c
        /\ (v.crc32_checksum # None) = c
        /\ c => /\ v.decompressed_size = Some(le_i32(input, AfterSize).val)
                /\ v.crc32_checksum = Some(le_i32(input, AfterSize + 4).val)

C8_Witness ==
    /\ Returned("parse_source_multi_packet") /\ result.ok
    /\ result.val.payload_compressed
    /\ result.val.decompressed_size # None
    /\ Len(result.val.payload) > 0

\* C9: the size field is Some exactly when the caller passes size = TRUE, and
\* the payload is the input from offset 6 + (2 if size) + (8 if compressed) on.
C9_SizeByCallerAndPayloadSuffix ==
    (Returned("parse_source_multi_packet") /\ result.ok) =>
        LET v == result.val IN
        /\ (v.size # None) = size
        /\ size => v.size = Some(le_i16(input, 7).val)
        /\ v.payload =
             Rest(input, 7 + (IF size THEN 2 ELSE 0)
                           + (IF WireCompressed THEN 8 ELSE 0))

C9_Witness ==
    /\ Returned("parse_source_multi_packet") /\ result.ok
    /\ size /\ WireCompressed
    /\ result.val.size = Some(513)
    /\ result.val.payload = <<11, 12>>

\* C10: is_payload_split is Ok(false) iff the first four bytes are -1,
\* Ok(true) iff they are -2, and an error for every other marker and for
\* every input of fewer than four bytes.
C10_EnvelopeClassification ==
    Returned("is_payload_split") =>
        IF Len(input) < 4 THEN ~result.ok
        ELSE LET h == SubSeq(input, 1, 4) IN
             /\ (result.ok /\ result.val = FALSE) <=> h = <<255, 255, 255, 255>>
             /\ (result.ok /\ result.val = TRUE) <=> h = <<254, 255, 255, 255>>
             /\ ~result.ok <=> h \notin {<<255, 255, 255, 255>>,
                                         <<254, 255, 255, 255>>}

C10_Witness ==
    /\ Returned("is_payload_split") /\ result.ok /\ result.val = TRUE
    /\ Len(input) = 5

\* the 11 tag bytes: T I m U D V E i j W A
KnownTags == {84, 73, 109, 85, 68, 86, 69, 105, 106, 87, 65}

\* C11: message_type maps each of the 11 tag bytes to a type of its own and
\* every other byte b to a value that carries b, so that no other byte, known
\* or not, decodes to the same value.
C11_TagRecoverableFromType ==
    (Returned("message_type") /\ Len(input) >= 1) =>
        /\ result.ok
        /\ \A b \in 0..255 :
              b # input[1] => MessageHeaderFrom(b) # result.val
        /\ input[1] \notin KnownTags => result.val[Len(result.val)] = input[1]

\* what holds of the code: the 11 tags decode to 11 different values, none
\* of them the value every other byte decodes to
C11_KnownTagsDistinct ==
    (Returned("message_type") /\ Len(input) >= 1) =>
        /\ result.ok
        /\ input[1] \in KnownTags =>
              \A b \in 0..255 :
                  b # input[1] => MessageHeaderFrom(b) # result.val
        /\ input[1] \notin KnownTags => result.val = <<"Invalid">>

\* C12: parse_single_packet of a buffer whose tag byte is none of the 11
\* returns an error whose code is neither the code is_payload_split gives a
\* marker other than -1 and -2 nor the code of a truncated input.
C12_UnknownTagErrorOfItsOwn ==
    (/\ Returned("parse_single_packet")
     /\ Len(input) >= 1
     /\ input[1] \notin KnownTags) =>
        /\ ~result.ok
        /\ result.err.code # parse_single_packet(<<>>).err.code
        /\ \A m \in SplitInputs :
              (Len(m) >= 4 /\ ~is_payload_split(m).ok)
                  => result.err.code # is_payload_split(m).err.code

\* the bytes a Source fragment has before its payload: id, total_packets and
\* packet_number, the size field when the caller says so, decompressed_size
\* and crc32_checksum when the wire says compressed
SourceHeaderLen ==
    IF Len(input) < 6 THEN 6
    ELSE 6 + (IF size THEN 2 ELSE 0) + (IF WireCompressed THEN 8 ELSE 0)

\* C26: a Source fragment whose buffer ends before its header is complete,
\* the size field and the compression fields included when the control
\* fields require them, and a GoldSource fragment shorter than its header
\* (id and the control byte, 5 bytes), give an error and no fragment
C26_ShortFragmentIsAnError ==
    /\ (Returned("parse_source_multi_packet") /\ Len(input) < SourceHeaderLen)
          => ~result.ok /\ result.err.code = "Eof"
    /\ (Returned("parse_goldsource_multi_packet") /\ Len(input) < 5)
          => ~result.ok /\ result.err.code = "Eof"

\* a compressed first fragment cut inside crc32_checksum has been rejected
C26_Witness ==
    /\ Returned("parse_source_multi_packet")
    /\ size /\ Len(input) = 14 /\ WireCompressed
    /\ ~result.ok /\ result.err.input = <<7, 8>>

-----------------------------------------------------------------------------
(* The cursor, read by read                                                *)

\* C20: before and after every read of every decoder the cursor is an offset
\* between 0 and the length of the buffer (here 1 .. Len + 1), so that the
\* bytes a read consumed lie inside the buffer and what is left is a suffix
\* of it; this holds after a failed read and after many_m_n went back too.
C20_CursorWithinBuffer ==
    /\ result.pos \in 1..(Len(input) + 1)
    /\ result.mem.mark \in 1..(Len(input) + 1)
    /\ Rest(input, result.pos)
          = [i \in 1..(Len(input) + 1 - result.pos) |->
                input[result.pos - 1 + i]]

C20_Witness ==
    /\ fn = "parse_source_info" /\ pc = "failed"
    /\ result.code = "Eof"
    /\ result.pos = Len(input) + 1
    /\ result.mem.flag = 128
    /\ Len(input) = 21

\* a call of one of the two INFO decoders
InfoCall == fn \in {"parse_source_info", "parse_goldsource_info"}

\* the step that comes next reads bytes at the cursor: every step but the
\* end-of-input test of all_consuming, and but the steps of the optional
\* Source fields whose test of the EDF byte says no (game_id tests 0x20)
ReadDue ==
    /\ Running /\ pc # "eof"
    /\ fn = "parse_source_info" =>
          /\ pc = "port" => BitSet(result.mem.flag, 128)
          /\ pc = "steam_id" => BitSet(result.mem.flag, 16)
          /\ pc = "source_tv_port" => BitSet(result.mem.flag, 64)
          /\ pc = "source_tv_name" => BitSet(result.mem.flag, 64)
          /\ pc = "keywords" => BitSet(result.mem.flag, 32)
          /\ pc = "game_id" => BitSet(result.mem.flag, 32)

\* C29: an INFO decode is one forward pass.  A step consumes the bytes from
\* the cursor before it up to the cursor after it, so: the cursor never
\* moves back, a record is returned with the cursor at the end of the
\* buffer, and a read that finds no byte at the cursor fails the decode
\* unless it is the read of the EDF byte.
C29_SingleForwardPass ==
    [][InfoCall =>
         /\ result'.pos >= result.pos
         /\ pc' = "done" => result'.pos = Len(input) + 1
         /\ (ReadDue /\ result.pos > Len(input) /\ pc # "edf")
               => pc' = "failed"
         /\ (ReadDue /\ pc' # "failed" /\ pc # "edf")
               => result'.pos > result.pos]_vars

\* the read of the EDF byte has found no byte and the decode has gone on
C29_Witness ==
    /\ fn = "parse_source_info" /\ pc = "port"
    /\ EndsAfterVersion(input) /\ WireAppId(input) = 240
    /\ result.ok /\ result.pos = Len(input) + 1 /\ result.mem.flag = 0

\* C24: with the reads of two calls on separate buffers interleaved in any
\* order, a call ends as it ends when it runs alone (same outcome, same
\* cursor, same error), and a step changes nothing of the other call: the
\* waiting call is left as it is, or the two calls change places whole.
C24_InterleavedCallsAsAlone ==
    [][/\ StepsAgree
       /\ \/ peer' = peer
          \/ peer' = RunningCall /\ RunningCall' = peer]_vars

\* a call has returned while the other call waits in the middle of its reads
C24_Witness ==
    /\ fn = "parse_source_info" /\ pc = "done"
    /\ Len(input) = 41
    /\ peer.fn = "parse_goldsource_info" /\ peer.pc = "download_link"
    /\ peer.result.pos = 20

-----------------------------------------------------------------------------
(* Strings and PING decoding (parser_util.rs, ping.rs)                     *)

\* The places of the 0x00 bytes of a buffer
Nulls(buf) == {i \in 1..Len(buf) : buf[i] = 0}

\* The place of the first 0x00 byte of a buffer that has one
FirstNull(buf) == CHOOSE i \in Nulls(buf) : \A j \in Nulls(buf) : i <= j

\* The bytes before the first 0x00 byte, as a string: the bytes themselves
\* when all are ASCII
BeforeFirstNull(buf) == from_utf8_lossy(SubSeq(buf, 1, FirstNull(buf) - 1))

\* C21: parse_ping succeeds exactly when the first 0x00 of the buffer is its
\* last byte, and then returns the bytes before it; a buffer with no 0x00
\* fails with nothing left of the input; a buffer with bytes after the
\* terminator fails with exactly those bytes as the remaining input
C21_PingIsOneString ==
    Returned("parse_ping") =>
        /\ result.ok <=> (Nulls(input) # {} /\ FirstNull(input) = Len(input))
        /\ result.ok =>
              /\ result.val = BeforeFirstNull(input)
              /\ (\A i \in 1..(Len(input) - 1) : input[i] < 128)
                    => result.val = SubSeq(input, 1, Len(input) - 1)
        /\ Nulls(input) = {} => ~result.ok /\ result.err.input = <<>>
        /\ (Nulls(input) # {} /\ FirstNull(input) < Len(input)) =>
              /\ ~result.ok
              /\ result.err.input
                    = SubSeq(input, FirstNull(input) + 1, Len(input))

\* a ping with bytes after its terminator has been rejected
C21_Witness ==
    /\ Returned("parse_ping")
    /\ Nulls(input) # {} /\ FirstNull(input) = 2 /\ Len(input) = 4
    /\ ~result.ok /\ Len(result.err.input) = 2

\* C28: c_string on a buffer whose first 0x00 is at place k returns the
\* bytes before k as the string and leaves the cursor just after k; on a
\* buffer with no 0x00, the empty buffer included, it fails with no string
C28_CStringUpToFirstNull ==
    Returned("c_string") =>
        IF Nulls(input) = {} THEN ~result.ok /\ result.val = <<>>
        ELSE /\ result.ok
             /\ result.val = BeforeFirstNull(input)
             /\ (\A i \in 1..(FirstNull(input) - 1) : input[i] < 128)
                   => result.val = SubSeq(input, 1, FirstNull(input) - 1)
             /\ result.pos = FirstNull(input) + 1

\* an empty string has been read from a buffer that goes on after it
C28_Witness ==
    /\ Returned("c_string")
    /\ Len(input) = 3 /\ input[1] = 0
    /\ result.ok /\ result.val = <<>> /\ result.pos = 2

-----------------------------------------------------------------------------
(* RULES decoding (rules.rs)                                               *)

\* num_rules as the first two bytes of a RULES buffer give it
WireNumRules ==
    input[1] + 256 * input[2] - (IF input[2] >= 128 THEN 65536 ELSE 0)

\* The places of the string terminators after num_rules: a pair ends at
\* every second one
RuleNulls == {i \in 3..Len(input) : input[i] = 0}

\* The place of the n-th terminator after num_rules
NthRuleNull(n) ==
    CHOOSE i \in RuleNulls : Cardinality({j \in RuleNulls : j <= i}) = n

\* The number of complete name/value pairs after num_rules
WirePairs == Cardinality(RuleNulls) \div 2

\* The place of the first byte after the n-th complete pair
AfterPair(n) == IF n = 0 THEN 3 ELSE NthRuleNull(2 * n) + 1

\* The n-th pair on the wire, as the record of its two strings
WirePair(n) ==
    [name |-> from_utf8_lossy(SubSeq(input, AfterPair(n - 1),
                                     NthRuleNull(2 * n - 1) - 1)),
     value |-> from_utf8_lossy(SubSeq(input, NthRuleNull(2 * n - 1) + 1,
                                      NthRuleNull(2 * n) - 1))]

\* C22: parse_rules on a buffer with fewer complete pairs than num_rules
\* succeeds with those pairs in order and the bytes after the last of them
\* as remaining_data; on a buffer where num_rules pairs are followed by at
\* least one byte it returns an error
C22_TruncatedRulesKeptExtraRejected ==
    (Returned("parse_rules") /\ Len(input) >= 2) =>
        /\ WirePairs < WireNumRules =>
              /\ result.ok
              /\ result.val.num_rules = WireNumRules
              /\ result.val.rules = [n \in 1..WirePairs |-> WirePair(n)]
              /\ result.val.remaining_data
                    = from_utf8_lossy(Rest(input, AfterPair(WirePairs)))
        /\ (/\ WireNumRules >= 0
            /\ WirePairs >= WireNumRules
            /\ AfterPair(WireNumRules) <= Len(input)) => ~result.ok

\* a RULES buffer cut inside its second pair has been decoded
C22_Witness ==
    /\ Returned("parse_rules") /\ Len(input) >= 2
    /\ WireNumRules = 3 /\ WirePairs = 1
    /\ Rest(input, AfterPair(1)) = <<110, 0, 118>>
    /\ result.ok /\ Len(result.val.rules) = 1
    /\ result.val.remaining_data = <<110, 0, 118>>

\* C30: parse_rules never decodes more pairs than max(num_rules, 0), for
\* every num_rules, zero and negative ones included
C30_PairsAtMostNumRules ==
    (Returned("parse_rules") /\ result.ok) =>
        Len(result.val.rules)
          <= (IF WireNumRules > 0 THEN WireNumRules ELSE 0)

\* C30, for the counts that are not negative: never more pairs than
\* num_rules
C30_PairsAtMostCountNotNegative ==
    (Returned("parse_rules") /\ result.ok /\ WireNumRules >= 0) =>
        Len(result.val.rules) <= WireNumRules

-----------------------------------------------------------------------------
(* Request decoding (requests.rs)                                          *)

\* The buffer starts with "Source Engine Query" and its terminator
HasQueryPayload ==
    /\ Len(input) >= 20
    /\ \A i \in 1..19 : input[i] = SourceEngineQuery[i]
    /\ input[20] = 0

\* The four bytes after the payload string as a little-endian i32
WireChallenge ==
    input[21] + 256 * input[22] + 65536 * input[23]
      + 16777216 * (IF input[24] >= 128 THEN input[24] - 256 ELSE input[24])

\* C23: parse_info_request succeeds exactly when the leading string is
\* "Source Engine Query"; then challenge is the four bytes after the
\* terminator when there are at least four and None otherwise, and remaining
\* is every byte after the string and the challenge
C23_InfoRequestChallengeAndRemaining ==
    Returned("parse_info_request") =>
        /\ result.ok <=> HasQueryPayload
        /\ result.ok =>
              /\ result.val.payload = SourceEngineQuery
              /\ IF Len(input) >= 24
                 THEN /\ result.val.challenge = Some(WireChallenge)
                      /\ result.val.remaining = Rest(input, 25)
                 ELSE /\ result.val.challenge = None
                      /\ result.val.remaining = Rest(input, 21)

\* a request with three bytes after the payload string has been decoded
C23_Witness ==
    /\ Returned("parse_info_request")
    /\ HasQueryPayload /\ Rest(input, 21) = <<255, 255, 255>>
    /\ result.ok /\ result.val.challenge = None
    /\ result.val.remaining = <<255, 255, 255>>

\* a request with a challenge and a byte more has been decoded
C23_ChallengeRead ==
    /\ Returned("parse_info_request")
    /\ HasQueryPayload /\ Len(input) = 25
    /\ result.ok /\ result.val.challenge = Some(-1)
    /\ result.val.remaining = <<1>>

====
